---- MODULE Spec2Model ----
(***************************************************************************)
(* Layout-tree engine of a ddterm tab: TabContentContainer (one tree root  *)
(* per tab) and SplitContainer (a Gtk.Paned with two child slots).         *)
(*                                                                         *)
(* Widgets are integers: 0 is null, a positive number is a TerminalPage,   *)
(* a negative number is a SplitContainer.  The widget tree is a heap: the  *)
(* sequence splits holds, for split -k, the record at index k; terminals   *)
(* holds the life state of terminal k at index k.  A widget's Gtk parent   *)
(* is the split whose slot holds it, or the container's Gtk.Box when it is *)
(* in box.  Each handler of the single-threaded UI loop is one action; the *)
(* Gtk signal handlers a handler triggers synchronously (set-focus-child,  *)
(* destroy) are part of that action.                                       *)
(***************************************************************************)
EXTENDS Integers, Sequences, FiniteSets, TLC

VARIABLES content, active_terminal, restructuring, collapse_idle, destroyed,
          splits, terminals, box, focus,
          idle_sources,  \* the collapse callbacks GLib.idle_add has queued
          records,       \* the persisted data of terminal k at index k
          session,       \* the record the container was restored from
          paned,         \* the Gtk.Paned geometry of split -k at index k
          apply_idle,    \* the splits with a queued _apply_split_position
          page_is_split, \* <<t, v>>: the last set_is_split on page t gave v
          current_child, \* the tab the window's notebook shows
          enabled        \* 'enabled' of the window's six pane actions

vars == <<content, active_terminal, restructuring, collapse_idle, destroyed,
          splits, terminals, box, focus, idle_sources, records, session,
          paned, apply_idle, page_is_split, current_child, enabled>>

\* Bounds of the model: how many terminals and split nodes are ever created.
MaxTerminals == 3
MaxSplits == 2

\* The nesting depth of the persisted records a container is restored from
MaxDepth == 3

Null == 0
\* Gtk.Orientation
HORIZONTAL == 0
VERTICAL == 1
\* The split-position a new SplitContainer starts with, in thousandths (the
\* code's own tolerance is 0.001)
DefaultPosition == 500

\* The range of the 'split-position' property, in the same thousandths
PositionMin == 0
PositionMax == 1000

\* The step of the split-position-inc / split-position-dec window actions
\* (0.1 of the range)
PositionStep == 100

Orientations == {HORIZONTAL, VERTICAL}

\* The Gtk.Paned side of a new SplitContainer (_init, lines 706-710): the
\* handle position in pixels from min_position, _position_initialized,
\* _last_alloc_size, and whether Gtk has disposed the widget
NewPaned ==
    [position |-> 0, position_initialized |-> FALSE, last_alloc_size |-> -1,
     disposed |-> FALSE]

\* serialize_state() returning null: nothing to persist
NoRecord == [type |-> "none"]

\* _is_split_container(widget), _is_terminal(widget)
IsSplit(w) == w < 0
IsTerminal(w) == w > 0

\* The whole program state as one record, so that a handler is a composition
\* of steps on it.
State ==
    [content |-> content, active_terminal |-> active_terminal,
     restructuring |-> restructuring, collapse_idle |-> collapse_idle,
     destroyed |-> destroyed, splits |-> splits, terminals |-> terminals,
     box |-> box, focus |-> focus, idle_sources |-> idle_sources,
     records |-> records, paned |-> paned, apply_idle |-> apply_idle,
     page_is_split |-> page_is_split,
     told |-> {}, emitted |-> 0, spawned |-> {}]

\* The last three fields are what the running handler has sent out so far:
\* told holds <<t, v>> when the handler's last set_is_split call on page t
\* passed v, emitted counts the 'session-update' signals the container has
\* emitted, and spawned holds <<t, policy, dir>> when the handler created
\* page t, whose command starts in dir under the preserve-working-directory
\* setting policy.  They start empty with every handler.

\* Sequencing of a handler's statements: F applied to the value v of the
\* preceding statement
Bind(v, F(_)) == F(v)

\* The record of split sp
SP(s, sp) == s.splits[-sp]

\* Gtk.Paned.get_child1() / get_child2()
GetChild1(s, sp) == SP(s, sp).child1
GetChild2(s, sp) == SP(s, sp).child2

SplitIdsOf(s) == {-k : k \in 1..Len(s.splits)}

Live(s, t) == s.terminals[t] = "live"

----------------------------------------------------------------------------
(* Tree queries *)

\* A _collect_terminals that visits child2 before child1
RECURSIVE CollectTerminals_SecondFirst(_, _)
CollectTerminals_SecondFirst(s, w) ==
    IF w = Null THEN <<>>
    ELSE IF IsTerminal(w) THEN <<w>>
    ELSE CollectTerminals_SecondFirst(s, GetChild2(s, w))
            \o CollectTerminals_SecondFirst(s, GetChild1(s, w))

\* SplitContainer._collect_terminals / get_all_terminals
RECURSIVE CollectTerminals(_, _)
CollectTerminals(s, w) ==
    IF w = Null THEN <<>>
    ELSE IF IsTerminal(w) THEN <<w>>
    ELSE CollectTerminals(s, GetChild1(s, w)) \o CollectTerminals(s, GetChild2(s, w))

\* TabContentContainer.get_all_terminals
GetAllTerminals(s) ==
    IF s.content = Null THEN <<>>
    ELSE IF IsTerminal(s.content) THEN <<s.content>>
    ELSE CollectTerminals(s, s.content)

\* TabContentContainer.is_split
IsSplitContainer(s) == IsSplit(s.content)

\* SplitContainer._get_first_terminal
RECURSIVE GetFirstTerminal(_, _)
GetFirstTerminal(s, sp) ==
    LET c1 == GetChild1(s, sp)
        c2 == GetChild2(s, sp)
    IN  IF c1 # Null
        THEN IF IsTerminal(c1) THEN c1 ELSE GetFirstTerminal(s, c1)
        ELSE IF c2 # Null
             THEN IF IsTerminal(c2) THEN c2 ELSE GetFirstTerminal(s, c2)
             ELSE Null

\* SplitContainer.active_terminal.  Gtk keeps get_focus_child() equal to the
\* child last passed to set-focus-child, which is what _active_child records,
\* so the getter's second branch reads the same value as its first.
RECURSIVE SplitActiveTerminal(_, _)
SplitActiveTerminal(s, sp) ==
    LET ac == SP(s, sp).active_child
    IN  IF ac # Null
        THEN IF IsTerminal(ac) THEN ac ELSE SplitActiveTerminal(s, ac)
        ELSE GetFirstTerminal(s, sp)

\* Gtk.Widget.get_parent(), for a parent that is a split
ParentSplit(s, w) ==
    LET ps == {sp \in SplitIdsOf(s) : GetChild1(s, sp) = w \/ GetChild2(s, sp) = w}
    IN  IF w = Null \/ ps = {} THEN Null ELSE CHOOSE sp \in ps : TRUE

\* The split ancestors of w, nearest first
RECURSIVE Ancestors(_, _)
Ancestors(s, w) ==
    LET p == ParentSplit(s, w)
    IN  IF p = Null THEN <<>> ELSE <<p>> \o Ancestors(s, p)

SeqToSet(q) == {q[i] : i \in 1..Len(q)}

\* The topmost widget above w (w itself when it has no parent split)
Toplevel(s, w) ==
    LET a == Ancestors(s, w) IN IF a = <<>> THEN w ELSE a[Len(a)]

\* w is inside the container's Gtk.Box, hence inside the window
Attached(s, w) == w # Null /\ Toplevel(s, w) \in s.box

\* w and every widget below it
RECURSIVE Descendants(_, _)
Descendants(s, w) ==
    IF w = Null THEN {}
    ELSE IF IsTerminal(w) THEN {w}
    ELSE {w} \cup Descendants(s, GetChild1(s, w)) \cup Descendants(s, GetChild2(s, w))

\* TabContentContainer._find_parent_split_recursive
RECURSIVE FindParentSplitRecursive(_, _, _)
FindParentSplitRecursive(s, sp, child) ==
    LET c1 == GetChild1(s, sp)
        c2 == GetChild2(s, sp)
        f1 == IF IsSplit(c1) THEN FindParentSplitRecursive(s, c1, child) ELSE Null
    IN  IF c1 = child \/ c2 = child THEN sp
        ELSE IF f1 # Null THEN f1
        ELSE IF IsSplit(c2) THEN FindParentSplitRecursive(s, c2, child)
        ELSE Null

\* A _find_parent_split that looks at the root Split only
FindParentSplit_RootOnly(s, child) ==
    IF ~IsSplit(s.content) THEN Null
    ELSE IF GetChild1(s, s.content) = child \/ GetChild2(s, s.content) = child
    THEN s.content
    ELSE Null

\* TabContentContainer._find_parent_split
FindParentSplit(s, child) ==
    IF ~IsSplit(s.content) THEN Null
    ELSE FindParentSplitRecursive(s, s.content, child)

----------------------------------------------------------------------------
(* Commit of a handler's result *)

\* A SplitContainer that nothing refers to any more: its subtree is outside
\* the container and holds no terminal page.  The JS runtime collects it;
\* its record is reset.
Collected(s) ==
    {sp \in SplitIdsOf(s) :
        LET top == Toplevel(s, sp)
        IN  /\ top \notin s.box
            /\ top # s.content
            /\ \A w \in Descendants(s, top) : ~IsTerminal(w)
            /\ \A w \in Descendants(s, top) : w \notin s.apply_idle}

Collect(s) ==
    Bind(Collected(s), LAMBDA dead :
        [s EXCEPT !.splits = [k \in 1..Len(@) |->
            IF -k \in dead
            THEN [orientation |-> HORIZONTAL, split_position |-> DefaultPosition,
                  child1 |-> Null, child2 |-> Null, active_child |-> Null]
            ELSE @[k]],
                  !.paned = [k \in 1..Len(@) |->
            IF -k \in dead THEN NewPaned ELSE @[k]]])

\* The next state is the handler's result; ses is the record it was
\* restored from
CommitWith(r, ses) ==
    \E s \in {Collect(r)} :
        /\ records' = s.records
        /\ session' = ses
        /\ content' = s.content
        /\ active_terminal' = s.active_terminal
        /\ restructuring' = s.restructuring
        /\ collapse_idle' = s.collapse_idle
        /\ idle_sources' = s.idle_sources
        /\ destroyed' = s.destroyed
        /\ splits' = s.splits
        /\ terminals' = s.terminals
        /\ box' = s.box
        /\ focus' = s.focus
        /\ paned' = s.paned
        /\ apply_idle' = s.apply_idle
        /\ page_is_split' = s.page_is_split

\* The tabs of the window: the tab of this container and another tab, which
\* holds a single terminal
Tabs == {"container", "other"}

\* AppWindow.is_split when the notebook shows tab cur and the container is
\* in state s: the is_split of the current tab's container
WindowIsSplit(s, cur) == cur = "container" /\ IsSplitContainer(s)

\* AppWindow._notify_structure_changed with the notebook showing tab cur
\* and the container in state s: notify('is-split') makes the bindings of
\* the six pane actions copy the window's is_split into their 'enabled'
NotifyStructureChanged(s, cur) ==
    /\ current_child' = cur
    /\ enabled' = WindowIsSplit(s, cur)

\* What the window does during a handler of the container that ends in
\* state r.  The window connects to nothing of the container but the
\* forwarded 'session-update', which it only emits again; when the
\* container destroys itself its page leaves the notebook, the other tab
\* becomes current and 'page-removed' calls _notify_structure_changed.
WindowAfter(r) ==
    IF r.destroyed /\ ~destroyed
    THEN NotifyStructureChanged(r, "other")
    ELSE UNCHANGED <<current_child, enabled>>

\* The next state is the handler's result; the container's handlers leave
\* the persisted record alone
Commit(r) == CommitWith(r, session) /\ WindowAfter(r)

----------------------------------------------------------------------------
(* Notifications *)

\* TabContentContainer._update_is_split: every page get_all_terminals()
\* returns is handed the container's is_split
UpdateIsSplit(s) ==
    Bind(SeqToSet(GetAllTerminals(s)), LAMBDA all :
        [s EXCEPT !.told = {p \in @ : p[1] \notin all}
                            \cup {<<t, IsSplitContainer(s)>> : t \in all},
                  !.page_is_split = {p \in @ : p[1] \notin all}
                            \cup {<<t, IsSplitContainer(s)>> : t \in all}])

\* this.emit('session-update')
EmitSessionUpdate(s) == [s EXCEPT !.emitted = @ + 1]

\* The state a handler leaves, without what it sent out
Quiet(s) == [s EXCEPT !.told = {}, !.emitted = 0, !.spawned = {}]

----------------------------------------------------------------------------
(* Active-terminal tracking and Gtk focus *)

\* _update_active_terminal followed by _set_active_terminal
UpdateActiveTerminal(s) ==
    LET terminal ==
            IF IsTerminal(s.content) THEN s.content
            ELSE IF IsSplit(s.content) THEN SplitActiveTerminal(s, s.content)
            ELSE Null
    IN  [s EXCEPT !.active_terminal = terminal]

\* SplitContainer._on_focus_child_change for every split of the set sps
SetActiveChild(s, sps, child) ==
    [s EXCEPT !.splits =
        [k \in 1..Len(@) |->
            IF -k \in sps THEN [@[k] EXCEPT !.active_child = child] ELSE @[k]]]

\* gtk_window_set_focus(NULL): set-focus-child(NULL) is emitted on every
\* ancestor of the focus widget, nearest first; the splits' handlers run
\* before the container's handler (line 89), which recomputes the active
\* terminal on the tree as it is at that moment.
ClearFocus(s) ==
    IF s.focus = Null THEN s
    ELSE UpdateActiveTerminal(
            [SetActiveChild(s, SeqToSet(Ancestors(s, s.focus)), Null)
                EXCEPT !.focus = Null])

\* A grab_focus whose set-focus-child emissions never reach the splits
FocusPath_NoEmission(s, w, anc) == s

\* The path of set-focus-child emissions of a grab_focus on w: every split
\* ancestor records the child through which the focus passes.
RECURSIVE FocusPath(_, _, _)
FocusPath(s, w, anc) ==
    IF anc = <<>> THEN s
    ELSE FocusPath(SetActiveChild(s, {anc[1]}, w), anc[1], Tail(anc))

\* Gtk.Widget.grab_focus().  A TerminalPage focuses its terminal; a Gtk.Paned
\* can take the focus itself.  The ancestors of the old focus widget that are
\* not ancestors of w get set-focus-child(NULL), then every ancestor of w
\* gets set-focus-child(child on the path), the container last.  A destroyed
\* page has no terminal left to focus.
GrabFocus(s, w) ==
    IF w = Null \/ (IsTerminal(w) /\ ~Live(s, w)) THEN s
    ELSE IF ~Attached(s, w) THEN FocusPath(s, w, Ancestors(s, w))
    ELSE IF s.focus = w THEN s
    ELSE Bind(Ancestors(s, w), LAMBDA anc :
         Bind(IF s.focus = Null THEN {}
              ELSE SeqToSet(Ancestors(s, s.focus)) \ (SeqToSet(anc) \cup {w}),
              LAMBDA old :
         UpdateActiveTerminal(
            [FocusPath(SetActiveChild(s, old, Null), w, anc) EXCEPT !.focus = w])))

----------------------------------------------------------------------------
(* Gtk container primitives *)

\* gtk_widget_unparent: when the window's focus is inside w the focus is
\* cleared first (w is still in its slot while the handlers run), then the
\* parent forgets w.
Unparent(s, w) ==
    Bind(IF s.focus # Null /\ s.focus \in Descendants(s, w) /\ Attached(s, w)
         THEN ClearFocus(s) ELSE s, LAMBDA s1 :
    Bind(ParentSplit(s1, w), LAMBDA p :
    Bind(IF p # Null /\ SP(s1, p).active_child = w
         THEN SetActiveChild(s1, {p}, Null) ELSE s1, LAMBDA s2 :
        IF p # Null
        THEN [s2 EXCEPT !.splits[-p] =
                [@ EXCEPT !.child1 = IF @ = w THEN Null ELSE @,
                          !.child2 = IF @ = w THEN Null ELSE @]]
        ELSE [s2 EXCEPT !.box = @ \ {w}])))

\* Gtk.Container.remove on the container's box: this.remove(widget)
BoxRemove(s, w) == IF w \in s.box THEN Unparent(s, w) ELSE s

\* Gtk.Container.add on the container's box: this.add(widget); Gtk refuses a
\* widget that already has a parent
BoxAdd(s, w) ==
    IF w = Null \/ ParentSplit(s, w) # Null THEN s
    ELSE [s EXCEPT !.box = @ \cup {w}]

\* Gtk.Paned.remove(widget): split.remove(child)
SplitRemove(s, sp, w) ==
    IF w # Null /\ (GetChild1(s, sp) = w \/ GetChild2(s, sp) = w)
    THEN Unparent(s, w) ELSE s

HasParent(s, w) == ParentSplit(s, w) # Null \/ w \in s.box

\* Gtk.Paned.pack1 / pack2: only an empty slot takes the child
Pack1(s, sp, w) ==
    IF GetChild1(s, sp) = Null /\ ~HasParent(s, w)
    THEN [s EXCEPT !.splits[-sp].child1 = w] ELSE s

Pack2(s, sp, w) ==
    IF GetChild2(s, sp) = Null /\ ~HasParent(s, w)
    THEN [s EXCEPT !.splits[-sp].child2 = w] ELSE s

\* A replace_child that always packs the new child into the second slot
ReplaceChild_IntoSecondSlot(s, sp, old_child, new_child) ==
    Pack2(SplitRemove(s, sp, old_child), sp, new_child)

\* A replace_child that always packs the new child into the first slot
ReplaceChild_IntoFirstSlot(s, sp, old_child, new_child) ==
    Pack1(SplitRemove(s, sp, old_child), sp, new_child)

\* SplitContainer.replace_child
ReplaceChild(s, sp, old_child, new_child) ==
    IF old_child = GetChild1(s, sp)
    THEN Pack1(SplitRemove(s, sp, old_child), sp, new_child)
    ELSE Pack2(SplitRemove(s, sp, old_child), sp, new_child)

\* new SplitContainer({orientation}): _init
NewSplit(s, orientation) ==
    [s EXCEPT !.splits = Append(@,
        [orientation |-> orientation, split_position |-> DefaultPosition,
         child1 |-> Null, child2 |-> Null, active_child |-> Null]),
              !.paned = Append(@, NewPaned)]

\* The split NewSplit creates
FreshSplit(s) == -(Len(s.splits) + 1)

\* new TerminalPage(...) with its handlers connected (_connect_terminal)
NewTerminal(s) ==
    [s EXCEPT !.terminals = Append(@, "live"), !.records = Append(@, Null)]

\* The terminal NewTerminal creates
FreshTerminal(s) == Len(s.terminals) + 1

\* TerminalPage.get_cwd(): the directory the shell of the page is in.  Every
\* page is in a directory of its own, named by the page.
GetCwd(s, page) == page

\* The body of _create_terminal, with origin the page whose directory the
\* new page's command starts in when preserve_working_directory is set
CreateTerminal_From(s, origin) ==
    Bind(IF origin # Null THEN GetCwd(s, origin) ELSE Null,
         LAMBDA working_directory :
        [NewTerminal(s) EXCEPT !.spawned = @ \cup
            {<<FreshTerminal(s), policy,
               IF policy THEN working_directory ELSE Null>> :
                    policy \in BOOLEAN}])

\* TabContentContainer._create_terminal(): with preserve_working_directory
\* the command starts in this._active_terminal?.get_cwd() ?? null
CreateTerminal(s) == CreateTerminal_From(s, s.active_terminal)

----------------------------------------------------------------------------
(* Destruction *)

\* A destruction of the container whose handler leaves the idle source queued
DestroyContainer_KeepsIdle(s) ==
    Bind(ClearFocus(s), LAMBDA s1 :
    Bind(UNION {Descendants(s1, w) : w \in s1.box}, LAMBDA ws :
        [s1 EXCEPT !.destroyed = TRUE,
                   !.box = {},
                   !.terminals = [t \in 1..Len(@) |->
                        IF t \in ws THEN "destroyed" ELSE @[t]],
                   !.splits = [k \in 1..Len(@) |->
                        IF -k \in ws
                        THEN [@[k] EXCEPT !.child1 = Null, !.child2 = Null,
                                          !.active_child = Null]
                        ELSE @[k]],
                   !.paned = [k \in 1..Len(@) |->
                        IF -k \in ws THEN [@[k] EXCEPT !.disposed = TRUE]
                        ELSE @[k]]]))

\* Gtk.Widget.destroy() on the container, with the container's own 'destroy'
\* handler (lines 66-73): the container leaves the window, the handler sets
\* _destroyed and releases the pending idle source, then Gtk destroys every
\* widget below the container.  The terminals' destroy handlers run with
\* _destroyed set and return at once.
DestroyContainer(s) ==
    Bind(ClearFocus(s), LAMBDA s1 :
    Bind(UNION {Descendants(s1, w) : w \in s1.box}, LAMBDA ws :
        [s1 EXCEPT !.destroyed = TRUE,
                   !.collapse_idle = FALSE,
                   !.idle_sources = IF s1.collapse_idle THEN @ - 1 ELSE @,
                   !.box = {},
                   !.terminals = [t \in 1..Len(@) |->
                        IF t \in ws THEN "destroyed" ELSE @[t]],
                   !.splits = [k \in 1..Len(@) |->
                        IF -k \in ws
                        THEN [@[k] EXCEPT !.child1 = Null, !.child2 = Null,
                                          !.active_child = Null]
                        ELSE @[k]],
                   !.paned = [k \in 1..Len(@) |->
                        IF -k \in ws THEN [@[k] EXCEPT !.disposed = TRUE]
                        ELSE @[k]]]))

\* An _on_terminal_destroyed that schedules no collapse for a split tree
OnTerminalDestroyed_NoDefer(s) ==
    IF s.destroyed THEN s
    ELSE IF ~IsSplit(s.content)
         THEN DestroyContainer([s EXCEPT !.content = Null, !.active_terminal = Null])
         ELSE s

\* An _on_terminal_destroyed that defers whatever the content is
OnTerminalDestroyed_AlwaysDefer(s) ==
    IF s.destroyed THEN s
    ELSE IF s.collapse_idle THEN s
    ELSE [s EXCEPT !.collapse_idle = TRUE, !.idle_sources = @ + 1]

\* An _on_terminal_destroyed that queues a callback for every destruction
OnTerminalDestroyed_AlwaysSchedules(s) ==
    IF s.destroyed THEN s
    ELSE IF ~IsSplit(s.content)
         THEN DestroyContainer([s EXCEPT !.content = Null, !.active_terminal = Null])
         ELSE [s EXCEPT !.collapse_idle = TRUE, !.idle_sources = @ + 1]

\* An _on_terminal_destroyed that replaces a root Split left with one child
\* by that child at once
OnTerminalDestroyed_Synchronous(s) ==
    IF s.destroyed THEN s
    ELSE IF ~IsSplit(s.content)
         THEN DestroyContainer([s EXCEPT !.content = Null, !.active_terminal = Null])
         ELSE Bind(IF GetChild1(s, s.content) # Null
                   THEN GetChild1(s, s.content)
                   ELSE GetChild2(s, s.content), LAMBDA rest :
              IF rest # Null /\ (GetChild1(s, s.content) = Null
                                 \/ GetChild2(s, s.content) = Null)
              THEN BoxAdd([BoxRemove(SplitRemove(s, s.content, rest), s.content)
                              EXCEPT !.content = rest], rest)
              ELSE IF s.collapse_idle THEN s
              ELSE [s EXCEPT !.collapse_idle = TRUE, !.idle_sources = @ + 1])

\* TabContentContainer._on_terminal_destroyed
OnTerminalDestroyed(s) ==
    IF s.destroyed THEN s
    ELSE IF ~IsSplit(s.content)
         THEN DestroyContainer([s EXCEPT !.content = Null, !.active_terminal = Null])
         ELSE IF s.collapse_idle THEN s
         ELSE [s EXCEPT !.collapse_idle = TRUE, !.idle_sources = @ + 1]

\* A 'destroy' handler that ignores the _restructuring guard
DestroyHandler_Unguarded(s) == OnTerminalDestroyed(s)

\* The page's 'destroy' handler connected by _connect_terminal
DestroyHandler(s) ==
    IF s.restructuring THEN s ELSE OnTerminalDestroyed(s)

\* Gtk.Widget.destroy() on a terminal page: Gtk takes the page out of its
\* parent, then emits 'destroy'.
DestroyTerminal(s, t) ==
    IF ~Live(s, t) THEN s
    ELSE DestroyHandler(
            [(IF HasParent(s, t) THEN Unparent(s, t) ELSE s)
                EXCEPT !.terminals[t] = "destroyed"])

\* for (const t of all) if (t !== active) t.destroy();
RECURSIVE DestroyAllExcept(_, _, _)
DestroyAllExcept(s, all, active) ==
    IF all = <<>> THEN s
    ELSE DestroyAllExcept(
            IF all[1] # active THEN DestroyTerminal(s, all[1]) ELSE s,
            Tail(all), active)

----------------------------------------------------------------------------
(* Deferred collapse *)

\* A walk that takes a changed child out of its slot and packs nothing back
Repack_RemoveOnly(s, split, child, result, slot) ==
    IF result = child THEN s
    ELSE IF ParentSplit(s, child) = split THEN SplitRemove(s, split, child)
    ELSE s

\* The treatment of one child slot in _collapse_split_recursive:
\* if (result !== child) { if (child.get_parent() === split)
\* split.remove(child); child = result; if (child) split.pack(child) }
Repack(s, split, child, result, slot) ==
    IF result = child THEN s
    ELSE Bind(IF ParentSplit(s, child) = split
              THEN SplitRemove(s, split, child) ELSE s, LAMBDA x :
            IF result = Null THEN x
            ELSE IF slot = 1 THEN Pack1(x, split, result)
            ELSE Pack2(x, split, result))

\* A walk that hands a Split's first child up whenever there is one
CollapseSplitRecursive_Hoist(s, split) ==
    IF GetChild1(s, split) # Null
    THEN [st |-> SplitRemove(s, split, GetChild1(s, split)),
          result |-> GetChild1(s, split)]
    ELSE [st |-> s, result |-> Null]

\* TabContentContainer._collapse_split_recursive: the state after the walk
\* and the node the walk returns
RECURSIVE CollapseSplitRecursive(_, _)
CollapseSplitRecursive(s, split) ==
    Bind(GetChild1(s, split), LAMBDA c1 :
    Bind(GetChild2(s, split), LAMBDA c2 :
    Bind(IF IsSplit(c1) THEN CollapseSplitRecursive(s, c1)
         ELSE [st |-> s, result |-> c1], LAMBDA r1 :
    Bind(Repack(r1.st, split, c1, r1.result, 1), LAMBDA a1 :
    Bind(IF IsSplit(c2) THEN CollapseSplitRecursive(a1, c2)
         ELSE [st |-> a1, result |-> c2], LAMBDA r2 :
    Bind(Repack(r2.st, split, c2, r2.result, 2), LAMBDA a2 :
        IF r1.result # Null /\ r2.result # Null
        THEN [st |-> a2, result |-> split]
        ELSE IF r1.result # Null
        THEN [st |-> SplitRemove(a2, split, r1.result), result |-> r1.result]
        ELSE IF r2.result # Null
        THEN [st |-> SplitRemove(a2, split, r2.result), result |-> r2.result]
        ELSE [st |-> a2, result |-> Null]))))))

\* A _collapse_empty_splits that keeps the container when the walk yields
\* nothing
CollapseEmptySplits_KeepsContainer(s) ==
    IF ~IsSplit(s.content) THEN s
    ELSE Bind(CollapseSplitRecursive([s EXCEPT !.restructuring = TRUE], s.content),
              LAMBDA r :
            IF r.result = Null
            THEN [r.st EXCEPT !.restructuring = FALSE]
            ELSE Bind(IF r.result # r.st.content
                      THEN BoxAdd([BoxRemove(r.st, r.st.content)
                                      EXCEPT !.content = r.result], r.result)
                      ELSE r.st, LAMBDA s1 :
                 UpdateActiveTerminal(
                    [GrabFocus(s1, r.result) EXCEPT !.restructuring = FALSE])))

\* TabContentContainer._collapse_empty_splits
CollapseEmptySplits(s) ==
    IF ~IsSplit(s.content) THEN s
    ELSE Bind(CollapseSplitRecursive([s EXCEPT !.restructuring = TRUE], s.content),
              LAMBDA r :
            IF r.result = Null
            THEN [DestroyContainer([r.st EXCEPT !.content = Null,
                                                !.active_terminal = Null])
                     EXCEPT !.restructuring = FALSE]
            ELSE Bind(IF r.result # r.st.content
                      THEN BoxAdd([BoxRemove(r.st, r.st.content)
                                      EXCEPT !.content = r.result], r.result)
                      ELSE r.st, LAMBDA s1 :
                 EmitSessionUpdate(UpdateActiveTerminal(UpdateIsSplit(
                    [GrabFocus(s1, r.result) EXCEPT !.restructuring = FALSE])))))

\* An idle callback that takes content to be the Split it was when the
\* collapse was scheduled, and the tab to be empty when it is none
CollapseIdleCallback_AsScheduled(s) ==
    IF s.destroyed
    THEN [s EXCEPT !.collapse_idle = FALSE, !.idle_sources = @ - 1]
    ELSE IF IsSplit(s.content)
    THEN CollapseEmptySplits([s EXCEPT !.collapse_idle = FALSE,
                                       !.idle_sources = @ - 1])
    ELSE DestroyContainer([s EXCEPT !.collapse_idle = FALSE,
                                    !.idle_sources = @ - 1,
                                    !.content = Null,
                                    !.active_terminal = Null])

\* The idle callback scheduled by _on_terminal_destroyed (lines 213-220);
\* it returns SOURCE_REMOVE, which takes its source off the main loop
CollapseIdleCallback(s) ==
    IF ~s.destroyed
    THEN CollapseEmptySplits([s EXCEPT !.collapse_idle = FALSE,
                                       !.idle_sources = @ - 1])
    ELSE [s EXCEPT !.collapse_idle = FALSE, !.idle_sources = @ - 1]

----------------------------------------------------------------------------
(* Container operations *)

\* TabContentContainer._clear_content
ClearContent(s) ==
    IF s.content # Null
    THEN [BoxRemove(s, s.content) EXCEPT !.content = Null]
    ELSE s

\* TabContentContainer.set_terminal
SetTerminalOp(s, page) ==
    UpdateIsSplit(
        [BoxAdd([ClearContent(s) EXCEPT !.content = page], page)
            EXCEPT !.active_terminal = page])

\* TabContentContainer.split
SplitOp(s, terminal, orientation) ==
    Bind(FreshTerminal(s), LAMBDA new_terminal :
    Bind(CreateTerminal([s EXCEPT !.restructuring = TRUE]), LAMBDA s1 :
    Bind(FreshSplit(s1), LAMBDA new_split :
    Bind(NewSplit(s1, orientation), LAMBDA s2 :
        IF s2.content = terminal
        THEN Bind(BoxRemove(s2, terminal), LAMBDA a :
             Bind(Pack2(Pack1(a, new_split, terminal), new_split, new_terminal),
                  LAMBDA b :
             Bind(BoxAdd([b EXCEPT !.content = new_split], new_split), LAMBDA c :
                EmitSessionUpdate(UpdateIsSplit(
                [GrabFocus(c, new_terminal) EXCEPT !.restructuring = FALSE])))))
        ELSE IF IsSplit(s2.content)
        THEN Bind(FindParentSplit(s2, terminal), LAMBDA parent_split :
                IF parent_split # Null
                THEN Bind(ReplaceChild(s2, parent_split, terminal, new_split),
                          LAMBDA a :
                     Bind(Pack2(Pack1(a, new_split, terminal), new_split,
                                new_terminal), LAMBDA b :
                        EmitSessionUpdate(UpdateIsSplit(
                        [GrabFocus(b, new_terminal)
                            EXCEPT !.restructuring = FALSE]))))
                ELSE [s2 EXCEPT !.restructuring = FALSE])
        ELSE EmitSessionUpdate(UpdateIsSplit(
                [GrabFocus(s2, new_terminal) EXCEPT !.restructuring = FALSE]))))))

\* TabContentContainer.unsplit.  With no active terminal the statement
\* active.hexpand = true throws after _content was assigned; the finally
\* block still resets the guard.
UnsplitOp(s) ==
    IF ~IsSplitContainer(s) THEN s
    ELSE Bind(s.active_terminal, LAMBDA active :
         Bind(DestroyAllExcept([s EXCEPT !.restructuring = TRUE],
                               GetAllTerminals(s), active), LAMBDA s1 :
         Bind([BoxRemove(s1, s1.content) EXCEPT !.content = active], LAMBDA s2 :
            IF active = Null THEN [s2 EXCEPT !.restructuring = FALSE]
            ELSE Bind(IF HasParent(s2, active) THEN Unparent(s2, active) ELSE s2,
                      LAMBDA s3 :
                 EmitSessionUpdate(UpdateIsSplit(
                 [GrabFocus(BoxAdd(s3, active), active)
                     EXCEPT !.restructuring = FALSE]))))))

\* TabContentContainer.collapse_terminal
CollapseTerminalOp(s, terminal) ==
    IF ~IsSplitContainer(s) THEN s
    ELSE Bind(FindParentSplit(s, terminal), LAMBDA parent_split :
            IF parent_split = Null THEN s
            ELSE Bind(IF GetChild1(s, parent_split) = terminal
                      THEN GetChild2(s, parent_split)
                      ELSE GetChild1(s, parent_split), LAMBDA sibling :
                IF sibling = Null THEN s
                ELSE Bind(SplitRemove([s EXCEPT !.restructuring = TRUE],
                                      parent_split, sibling), LAMBDA s1 :
                     Bind(IF parent_split = s1.content
                          THEN BoxAdd([BoxRemove(s1, parent_split)
                                          EXCEPT !.content = sibling], sibling)
                          ELSE Bind(FindParentSplit(s1, parent_split),
                                    LAMBDA grandparent :
                                IF grandparent # Null
                                THEN ReplaceChild(s1, grandparent, parent_split,
                                                  sibling)
                                ELSE s1), LAMBDA s2 :
                        EmitSessionUpdate(UpdateActiveTerminal(UpdateIsSplit(
                            [GrabFocus(s2, sibling)
                                EXCEPT !.restructuring = FALSE])))))))

\* TerminalPage.close(): the page destroys itself at once, or asks the user
\* first and is destroyed (if at all) in a later turn
TerminalClose(s, t, now) ==
    IF now THEN DestroyTerminal(s, t) ELSE s

\* close_active_terminal without its collapse_terminal call
BeforeClose_NoCollapse(s) == [s EXCEPT !.restructuring = TRUE]

\* close_active_terminal up to the call of active.close() (lines 457-459):
\* the guard is set, then collapse_terminal(active) runs with its own
\* try/finally
BeforeClose(s) ==
    CollapseTerminalOp([s EXCEPT !.restructuring = TRUE], s.active_terminal)

\* A close_active_terminal without the is_split test
CloseActiveTerminalOp_Unguarded(s, now) ==
    IF s.active_terminal = Null THEN s
    ELSE [TerminalClose(BeforeClose(s), s.active_terminal, now)
            EXCEPT !.restructuring = FALSE]

\* TabContentContainer.close_active_terminal
CloseActiveTerminalOp(s, now) ==
    IF ~IsSplitContainer(s) THEN s
    ELSE IF s.active_terminal = Null THEN s
    ELSE [TerminalClose(BeforeClose(s), s.active_terminal, now)
            EXCEPT !.restructuring = FALSE]

\* Array.prototype.indexOf, 1-based; 0 when absent
IndexOf(q, x) ==
    IF \E i \in 1..Len(q) : q[i] = x
    THEN CHOOSE i \in 1..Len(q) : q[i] = x /\ \A j \in 1..(i - 1) : q[j] # x
    ELSE 0

\* TabContentContainer._handle_move_to_other_pane
HandleMoveToOtherPane(s, terminal) ==
    IF ~IsSplitContainer(s) THEN s
    ELSE Bind(GetAllTerminals(s), LAMBDA all :
         Bind(IndexOf(all, terminal) - 1, LAMBDA idx :
            IF idx < 0 \/ Len(all) <= 1 THEN s
            ELSE GrabFocus(s, all[((idx + 1) % Len(all)) + 1])))

\* A focus_adjacent_terminal that stops at the ends of the traversal
FocusAdjacentTerminal_NoWrap(s, direction) ==
    Bind(GetAllTerminals(s), LAMBDA all :
    Bind(IndexOf(all, s.active_terminal) - 1, LAMBDA idx :
        IF Len(all) <= 1 THEN s
        ELSE IF idx < 0 THEN s
        ELSE IF idx + direction < 0 \/ idx + direction >= Len(all) THEN s
        ELSE GrabFocus(s, all[idx + direction + 1])))

\* TabContentContainer.focus_adjacent_terminal
FocusAdjacentTerminal(s, direction) ==
    Bind(GetAllTerminals(s), LAMBDA all :
    Bind(IndexOf(all, s.active_terminal) - 1, LAMBDA idx :
        IF Len(all) <= 1 THEN s
        ELSE IF idx < 0 THEN s
        ELSE GrabFocus(s, all[((Len(all) + idx + direction) % Len(all)) + 1])))

Min(a, b) == IF a < b THEN a ELSE b
Max(a, b) == IF a > b THEN a ELSE b

\* max_position - min_position read from a disposed Gtk.Paned when GJS
\* yields undefined for both properties
NaN == -1

\* Math.round(num / den) for den > 0: halves go up
Round(num, den) == (2 * num + den) \div (2 * den)

\* max_position - min_position of a live Gtk.Paned: the size it was last
\* allocated along its orientation (the handle takes no room), 0 before the
\* first allocation.  min_position is 0.
PanedRange(s, split) == Max(s.paned[-split].last_alloc_size, 0)

\* What the same expression can yield: the range of a live widget; of a
\* disposed one, which the closure keeps from being finalized, the range
\* it had (GJS reads through to the object) or NaN (GJS refuses the read)
RangeReads(s, split) ==
    IF s.paned[-split].disposed
    THEN {PanedRange(s, split), NaN}
    ELSE {PanedRange(s, split)}

\* An _apply_split_position without the _updating_position guard: the
\* 'notify::position' of its own set_position is folded into the fraction
ApplySplitPosition_Feedback(s, split, range) ==
    IF range # NaN /\ range <= 0 THEN s
    ELSE IF range = NaN
    THEN [s EXCEPT !.paned[-split].position_initialized = TRUE]
    ELSE Bind(Max(0, Min(range, Round(SP(s, split).split_position * range,
                                      PositionMax))), LAMBDA pos :
         Bind((pos * PositionMax) \div range, LAMBDA normalized :
            [s EXCEPT !.paned[-split] = [@ EXCEPT !.position = pos,
                                           !.position_initialized = TRUE],
                      !.splits[-split].split_position =
                          IF s.paned[-split].position_initialized
                             /\ pos # s.paned[-split].position
                             /\ (normalized - @ > 1 \/ @ - normalized > 1)
                          THEN normalized ELSE @]))

\* SplitContainer._apply_split_position with range the value it reads.
\* Gtk.Paned.set_position keeps the handle within [min_position,
\* max_position]; its 'notify::position' runs with _updating_position set,
\* so _on_paned_position_changed returns at its first test.
ApplySplitPosition(s, split, range) ==
    IF range # NaN /\ range <= 0 THEN s
    ELSE [s EXCEPT !.paned[-split] = [@ EXCEPT
            !.position = IF range = NaN THEN @
                         ELSE Max(0, Min(range,
                                Round(SP(s, split).split_position * range,
                                      PositionMax))),
            !.position_initialized = TRUE]]

\* SplitContainer._on_paned_position_changed outside _apply_split_position
\* (_updating_position false), with range the value it reads
OnPanedPositionChanged(s, split, range) ==
    IF ~s.paned[-split].position_initialized THEN s
    ELSE IF range <= 0 THEN s
    ELSE Bind((s.paned[-split].position * PositionMax) \div range,
              LAMBDA normalized :
            IF normalized - SP(s, split).split_position > 1
               \/ SP(s, split).split_position - normalized > 1
            THEN [s EXCEPT !.splits[-split].split_position = normalized]
            ELSE s)

\* The user drags the handle of the split to pixel: Gtk.Paned moves it within
\* its range and notifies 'position' when it moved
PanedDragged(s, split, pixel) ==
    Bind(Max(0, Min(PanedRange(s, split), pixel)), LAMBDA pos :
        IF pos = s.paned[-split].position THEN s
        ELSE OnPanedPositionChanged(
                [s EXCEPT !.paned[-split].position = pos], split,
                PanedRange(s, split)))

\* Gtk.Paned's own size allocation, which runs before the handlers connected
\* to 'size-allocate'.  Both children are packed with resize set (pack1 and
\* pack2 with true, true), so Gtk scales a handle position that was set in
\* proportion to the new size, centres one that was never set, keeps the
\* result within the new range and notifies 'position' when the handle
\* moved.  The position was set exactly when _apply_split_position has run.
PanedSizeAllocate(s, split, size) ==
    Bind(s.paned[-split], LAMBDA p :
    Bind(IF ~p.position_initialized THEN Round(size, 2)
         ELSE IF p.last_alloc_size > 0
              THEN Round(size * p.position, p.last_alloc_size)
              ELSE p.position, LAMBDA scaled :
    Bind(Max(0, Min(size, scaled)), LAMBDA pos :
        IF pos = p.position THEN s
        ELSE OnPanedPositionChanged(
                [s EXCEPT !.paned[-split].position = pos], split, size))))

\* SplitContainer._on_size_allocate
OnSizeAllocate(s, split, size) ==
    IF size # s.paned[-split].last_alloc_size
    THEN ApplySplitPosition(
            [s EXCEPT !.paned[-split].last_alloc_size = size], split, size)
    ELSE s

\* SplitContainer 'split_position' setter
SetSplitPosition(s, split, value) ==
    Bind(Max(PositionMin, Min(PositionMax, value)), LAMBDA v :
        IF SP(s, split).split_position = v THEN s
        ELSE ApplySplitPosition([s EXCEPT !.splits[-split].split_position = v],
                                split, PanedRange(s, split)))

\* TabContentContainer.adjust_split_position
AdjustSplitPositionOp(s, delta) ==
    IF ~IsSplitContainer(s) THEN s
    ELSE IF s.active_terminal = Null THEN s
    ELSE Bind(FindParentSplit(s, s.active_terminal), LAMBDA parent :
         Bind(IF parent # Null THEN parent ELSE s.content, LAMBDA target :
            IF IsSplit(target)
            THEN SetSplitPosition(s, target, SP(s, target).split_position + delta)
            ELSE s))

\* TabContentContainer._close_tab
CloseTabOp(s) ==
    DestroyContainer(
        DestroyAllExcept([s EXCEPT !.restructuring = TRUE], GetAllTerminals(s), Null))

----------------------------------------------------------------------------
(* Persistence *)

\* A persisted record (a GLib a{sv} dictionary) is a function from its keys
\* to their values; a key the dictionary lacks is not in its domain.

\* dict.lookup('type', 's'): the type tag, or no string at all
TypeOf(rec) == IF "type" \in DOMAIN rec THEN rec["type"] ELSE "null"

\* TerminalPage.serialize_state: the page's own record; the core treats it
\* as opaque
TerminalSerializeState(s, page) == [data |-> s.records[page]]

\* TerminalPage.deserialize_state: a new page configured from the record,
\* with the ambient settings where the record has nothing
TerminalDeserializeState(s, rec) ==
    [s EXCEPT !.terminals = Append(@, "live"),
              !.records = Append(@, IF "data" \in DOMAIN rec
                                    THEN rec["data"] ELSE Null)]

\* _serialize_terminal: insert_value replaces a 'type' the page's record has
SerializeTerminal(s, page) ==
    [type |-> "terminal"] @@ TerminalSerializeState(s, page)

\* A Split serialization that writes its children into the other's key
RECURSIVE SplitSerializeState_Swapped(_, _)
SplitSerializeState_Swapped(s, sp) ==
    Bind(([type |-> "split", orientation |-> SP(s, sp).orientation]
            @@ ("split-position" :> SP(s, sp).split_position)), LAMBDA properties :
    Bind(IF IsTerminal(GetChild1(s, sp))
         THEN ("second" :> SerializeTerminal(s, GetChild1(s, sp))) @@ properties
         ELSE IF IsSplit(GetChild1(s, sp))
         THEN ("second" :> SplitSerializeState_Swapped(s, GetChild1(s, sp))) @@ properties
         ELSE properties, LAMBDA with1 :
         IF IsTerminal(GetChild2(s, sp))
         THEN ("first" :> SerializeTerminal(s, GetChild2(s, sp))) @@ with1
         ELSE IF IsSplit(GetChild2(s, sp))
         THEN ("first" :> SplitSerializeState_Swapped(s, GetChild2(s, sp))) @@ with1
         ELSE with1))

\* SplitContainer.serialize_state and _serialize_node
RECURSIVE SplitSerializeState(_, _)
RECURSIVE SerializeNode(_, _)
SplitSerializeState(s, sp) ==
    Bind(([type |-> "split", orientation |-> SP(s, sp).orientation]
            @@ ("split-position" :> SP(s, sp).split_position)), LAMBDA properties :
    Bind(IF GetChild1(s, sp) # Null
         THEN ("first" :> SerializeNode(s, GetChild1(s, sp))) @@ properties
         ELSE properties, LAMBDA with1 :
         IF GetChild2(s, sp) # Null
         THEN ("second" :> SerializeNode(s, GetChild2(s, sp))) @@ with1
         ELSE with1))

SerializeNode(s, child) ==
    IF IsTerminal(child) THEN SerializeTerminal(s, child)
    ELSE SplitSerializeState(s, child)

\* TabContentContainer.serialize_state
SerializeState(s) ==
    IF s.content = Null \/ ~HasParent(s, s.content) THEN NoRecord
    ELSE IF IsTerminal(s.content) THEN SerializeTerminal(s, s.content)
    ELSE SplitSerializeState(s, s.content)

\* A _deserialize_node that builds a terminal from a record of any other type
RECURSIVE SplitDeserializeState(_, _)
DeserializeNode_UnknownAsTerminal(s, rec) ==
    IF TypeOf(rec) = "split" THEN SplitDeserializeState(s, rec)
    ELSE [st |-> TerminalDeserializeState(s, rec), result |-> FreshTerminal(s)]

\* _deserialize_node: the state after the call and the widget it returns
RECURSIVE DeserializeNode(_, _)
DeserializeNode(s, rec) ==
    IF TypeOf(rec) = "terminal"
    THEN [st |-> TerminalDeserializeState(s, rec), result |-> FreshTerminal(s)]
    ELSE IF TypeOf(rec) = "split" THEN SplitDeserializeState(s, rec)
    ELSE [st |-> s, result |-> Null]

\* SplitContainer.deserialize_state: the state after the call and the Split
\* it returns.  The stored fraction is assigned as read, without the
\* setter, and the task that applies it is queued with GLib.idle_add.
SplitDeserializeState(s, rec) ==
    IF TypeOf(rec) # "split" THEN [st |-> s, result |-> Null]
    ELSE
    Bind(FreshSplit(s), LAMBDA split :
    Bind(NewSplit(s, IF "orientation" \in DOMAIN rec
                     THEN rec["orientation"] ELSE HORIZONTAL), LAMBDA s0 :
    Bind(IF "first" \in DOMAIN rec
         THEN DeserializeNode(s0, rec["first"])
         ELSE [st |-> s0, result |-> Null], LAMBDA r1 :
    Bind(IF r1.result # Null THEN Pack1(r1.st, split, r1.result) ELSE r1.st,
         LAMBDA s1 :
    Bind(IF "second" \in DOMAIN rec
         THEN DeserializeNode(s1, rec["second"])
         ELSE [st |-> s1, result |-> Null], LAMBDA r2 :
    Bind(IF r2.result # Null THEN Pack2(r2.st, split, r2.result) ELSE r2.st,
         LAMBDA s2 :
        [st |-> IF "split-position" \in DOMAIN rec
                THEN [s2 EXCEPT !.splits[-split].split_position =
                                        rec["split-position"],
                                !.apply_idle = @ \cup {split}]
                ELSE [s2 EXCEPT !.apply_idle = @ \cup {split}],
         result |-> split]))))))

\* The idle task of SplitContainer.deserialize_state (lines 947-950), with
\* range the value _apply_split_position reads
ApplyIdleCallback(s, split, range) ==
    ApplySplitPosition([s EXCEPT !.apply_idle = @ \ {split}], split, range)

\* new TabContentContainer(...)
NewContainer ==
    [content |-> Null, active_terminal |-> Null, restructuring |-> FALSE,
     collapse_idle |-> FALSE, destroyed |-> FALSE, splits |-> <<>>,
     terminals |-> <<>>, box |-> {}, focus |-> Null, idle_sources |-> 0,
     records |-> <<>>, paned |-> <<>>, apply_idle |-> {},
     page_is_split |-> {}, told |-> {},
     emitted |-> 0, spawned |-> {}]

\* A container deserialization that restores terminal records only
DeserializeState_TerminalOnly(rec) ==
    IF TypeOf(rec) = "split"
    THEN Bind(SplitDeserializeState(NewContainer, rec), LAMBDA r :
            UpdateActiveTerminal(
                BoxAdd([r.st EXCEPT !.content = r.result], r.result)))
    ELSE IF TypeOf(rec) = "terminal"
    THEN SetTerminalOp(TerminalDeserializeState(NewContainer, rec),
                       FreshTerminal(NewContainer))
    ELSE NewContainer

\* TabContentContainer.deserialize_state
DeserializeState(rec) ==
    IF TypeOf(rec) = "split"
    THEN Bind(SplitDeserializeState(NewContainer, rec), LAMBDA r :
            IF r.result # Null
            THEN UpdateIsSplit(UpdateActiveTerminal(
                    BoxAdd([r.st EXCEPT !.content = r.result], r.result)))
            ELSE r.st)
    ELSE SetTerminalOp(TerminalDeserializeState(NewContainer, rec),
                       FreshTerminal(NewContainer))

----------------------------------------------------------------------------
(* The state machine *)

\* Each action is one handler run to completion.  The requests are methods
\* and signal handlers any caller may invoke, so they can reach the container
\* while a collapse is pending: the idle source runs in a later turn of the
\* loop than the destruction that scheduled it.

Init ==
    /\ content = Null
    /\ active_terminal = Null
    /\ restructuring = FALSE
    /\ collapse_idle = FALSE
    /\ idle_sources = 0
    /\ records = <<>>
    /\ session = NoRecord
    /\ destroyed = FALSE
    /\ splits = <<>>
    /\ terminals = <<>>
    /\ box = {}
    /\ focus = Null
    /\ paned = <<>>
    /\ apply_idle = {}
    /\ page_is_split = {}
    /\ current_child = "container"
    /\ enabled = FALSE

CreatedTerminals == 1..Len(terminals)

\* A new page is created for the empty container and handed to set_terminal
SetTerminal ==
    /\ ~destroyed
    /\ content = Null
    /\ Len(terminals) < MaxTerminals
    /\ Commit(SetTerminalOp(NewTerminal(State), FreshTerminal(State)))

\* split-horizontal-request / split-vertical-request of a page of the tab
Split(t, o) ==
    /\ ~destroyed
    /\ Live(State, t)
    /\ Attached(State, t)
    /\ Len(terminals) < MaxTerminals
    /\ Len(splits) < MaxSplits
    /\ Commit(SplitOp(State, t, o))

\* unsplit-request
Unsplit ==
    /\ ~destroyed
    /\ IsSplitContainer(State)
    /\ Commit(UnsplitOp(State))

\* close-pane-request
CloseActiveTerminal(now) ==
    /\ ~destroyed
    /\ IsSplitContainer(State)
    /\ Commit(CloseActiveTerminalOp(State, now))

\* move-to-other-pane-request of a page of the tab
MoveToOtherPane(t) ==
    /\ ~destroyed
    /\ Live(State, t)
    /\ Attached(State, t)
    /\ Commit(HandleMoveToOtherPane(State, t))

\* focus_adjacent_terminal(+1 / -1)
FocusAdjacent(d) ==
    /\ ~destroyed
    /\ Commit(FocusAdjacentTerminal(State, d))

\* The window's split-position-inc / split-position-dec actions
AdjustSplitPosition(delta) ==
    /\ ~destroyed
    /\ Commit(AdjustSplitPositionOp(State, delta))

\* The user clicks into a terminal of the tab
FocusIn(t) ==
    /\ ~destroyed
    /\ Live(State, t)
    /\ Attached(State, t)
    /\ Commit(GrabFocus(State, t))

\* The focus leaves the tab (another tab or another widget of the window)
FocusOut ==
    /\ ~destroyed
    /\ focus # Null
    /\ Commit(ClearFocus(State))

\* A terminal page is destroyed from outside the container's operations
\* (its child process exits, or a close confirmed in a later turn)
TerminalExit(t) ==
    /\ Live(State, t)
    /\ Commit(DestroyTerminal(State, t))

\* The idle source fires
CollapseIdle ==
    /\ idle_sources > 0
    /\ Commit(CollapseIdleCallback(State))

\* The tab label's close button
CloseTab ==
    /\ ~destroyed
    /\ content # Null
    /\ Commit(CloseTabOp(State))

Next ==
    \/ SetTerminal
    \/ \E t \in CreatedTerminals, o \in Orientations : Split(t, o)
    \/ Unsplit
    \/ \E now \in BOOLEAN : CloseActiveTerminal(now)
    \/ \E t \in CreatedTerminals : MoveToOtherPane(t)
    \/ \E d \in {-1, 1} : FocusAdjacent(d)
    \/ \E t \in CreatedTerminals : FocusIn(t)
    \/ FocusOut
    \/ \E t \in CreatedTerminals : TerminalExit(t)
    \/ CollapseIdle
    \/ CloseTab

Spec == Init /\ [][Next]_vars

\* The GLib main loop dispatches a ready idle source: a pending collapse does
\* not stay pending for ever.  _collapse_idle is reset by the callback itself
\* (line 214) or by the container's destroy handler that removes the source
\* (lines 68-71); CollapseIdle is enabled exactly while it is set.
IdleDispatched == collapse_idle /\ collapse_idle' = FALSE

FairSpec == Spec /\ WF_collapse_idle(IdleDispatched)

\* The container with the divider moved as well.  No handler of Next reads a
\* split_position, so the trees Spec reaches are those PositionSpec reaches
\* with their fractions forgotten; the dividers are moved in a specification
\* of their own to keep the fractions out of the state space of Spec.
NextPosition ==
    \/ Next
    \/ \E delta \in {PositionStep, -PositionStep} : AdjustSplitPosition(delta)

PositionSpec == Init /\ [][NextPosition]_vars

\* The user switches to the other tab or back: 'switch-page' of the notebook
\* calls _notify_structure_changed, and the notebook's current_child is the
\* page switched to by the time the window reads it
SwitchTab ==
    /\ ~destroyed
    /\ \E cur \in Tabs \ {current_child} : NotifyStructureChanged(State, cur)
    /\ UNCHANGED <<content, active_terminal, restructuring, collapse_idle,
                   destroyed, splits, terminals, box, focus, idle_sources,
                   records, session, paned, apply_idle, page_is_split>>

\* The container in its window: the operations of the container and the
\* switch between the tabs
NextWindow ==
    \/ Next
    \/ SwitchTab

WindowSpec == Init /\ [][NextWindow]_vars

----------------------------------------------------------------------------
(* Restoring a session *)

\* A child or attribute the record lacks
Omitted == [omitted |-> TRUE]

\* The records of one leaf position with the data p: a terminal record, a
\* record of an unknown type and a record without a type tag
LeafRecords(p) ==
    {[type |-> "terminal", data |-> p], [type |-> "other", data |-> p],
     [data |-> p]}

\* A split record; an orientation or position below 0 and an Omitted child
\* are left out of it
SplitRecord(o, pos, first, second) ==
    Bind([type |-> "split"], LAMBDA r0 :
    Bind(IF o >= 0 THEN [orientation |-> o] @@ r0 ELSE r0, LAMBDA r1 :
    Bind(IF pos >= 0 THEN ("split-position" :> pos) @@ r1 ELSE r1, LAMBDA r2 :
    Bind(IF first # Omitted THEN [first |-> first] @@ r2 ELSE r2, LAMBDA r3 :
         IF second # Omitted THEN [second |-> second] @@ r3 ELSE r3))))

\* The split records nested d deep along one branch, the other branch a
\* leaf or nothing.  The orientation alternates and the fraction grows from
\* level to level, and every leaf has its own data.
RECURSIVE SpineRecords(_, _, _)
SpineRecords(d, o, pos) ==
    IF d = 0 THEN {}
    ELSE LET oo == IF o < 0 THEN o ELSE (o + d) % 2
             pp == IF pos < 0 THEN pos ELSE pos + d * PositionStep
             leaves1 == LeafRecords(2 * d - 1) \cup {Omitted}
             leaves2 == LeafRecords(2 * d) \cup {Omitted}
             nested == SpineRecords(d - 1, o, pos)
         IN  {SplitRecord(oo, pp, a, b) : a \in nested \cup leaves1, b \in leaves2}
             \cup {SplitRecord(oo, pp, a, b) : a \in leaves1, b \in nested}

\* The persisted records a tab is restored from: single terminals, split
\* records of every depth up to MaxDepth with all, some or none of their
\* attributes and children, and split-shaped records with another type tag
\* or none
SessionRecords ==
    LeafRecords(1)
    \cup UNION {SpineRecords(MaxDepth, o, pos) :
                    o \in {-1, HORIZONTAL, VERTICAL},
                    pos \in {-1, DefaultPosition \div 2}}
    \cup {[type |-> "other"] @@ r : r \in SpineRecords(1, VERTICAL, DefaultPosition)}
    \cup {[k \in DOMAIN r \ {"type"} |-> r[k]] :
                r \in SpineRecords(1, VERTICAL, DefaultPosition)}

\* The application starts and restores the tab from its persisted record
InitRestore ==
    \E rec \in SessionRecords :
        \E s \in {Collect(DeserializeState(rec))} :
            /\ content = s.content
            /\ active_terminal = s.active_terminal
            /\ restructuring = s.restructuring
            /\ collapse_idle = s.collapse_idle
            /\ idle_sources = s.idle_sources
            /\ destroyed = s.destroyed
            /\ splits = s.splits
            /\ terminals = s.terminals
            /\ box = s.box
            /\ focus = s.focus
            /\ records = s.records
            /\ session = rec
            /\ paned = s.paned
            /\ apply_idle = s.apply_idle
            /\ page_is_split = s.page_is_split
            /\ current_child = "container"
            /\ enabled = WindowIsSplit(s, "container")

\* The application persists the tab and is started again: the tab is
\* restored from the record the container wrote
Restart ==
    /\ ~destroyed
    /\ SerializeState(State) # NoRecord
    /\ CommitWith(DeserializeState(SerializeState(State)), SerializeState(State))
    /\ NotifyStructureChanged(DeserializeState(SerializeState(State)),
                              "container")

NextRestore == Restart

RestoreSpec == InitRestore /\ [][NextRestore]_vars

----------------------------------------------------------------------------
(* The dividers of a restored tab *)

\* The sizes Gtk allocates to a split along its orientation, in pixels
Sizes == {5, 10}

\* The pixels a handle can be dragged to
Pixels == 0..(CHOOSE m \in Sizes : \A size \in Sizes : size <= m)

\* The persisted records of a tab with dividers: a split of two terminals
\* and a split nested in a split, the outer fraction absent, within the
\* range of the property, or outside it on either side
PanedRecords ==
    LET leaf(p) == [type |-> "terminal", data |-> p]
        inner == SplitRecord(VERTICAL, 7 * PositionStep, leaf(1), leaf(2))
        outer(first, second) ==
            {SplitRecord(HORIZONTAL, pos, first, second) :
                pos \in {-1, 3 * PositionStep, 15 * PositionStep}}
            \cup {("split-position" :> -2 * PositionStep)
                    @@ SplitRecord(HORIZONTAL, -1, first, second)}
    IN  outer(leaf(1), leaf(2)) \cup outer(inner, leaf(3))

\* The application starts and restores the tab from its persisted record
InitPaned ==
    \E rec \in PanedRecords :
        \E s \in {Collect(DeserializeState(rec))} :
            /\ content = s.content
            /\ active_terminal = s.active_terminal
            /\ restructuring = s.restructuring
            /\ collapse_idle = s.collapse_idle
            /\ idle_sources = s.idle_sources
            /\ destroyed = s.destroyed
            /\ splits = s.splits
            /\ terminals = s.terminals
            /\ box = s.box
            /\ focus = s.focus
            /\ records = s.records
            /\ session = rec
            /\ paned = s.paned
            /\ apply_idle = s.apply_idle
            /\ page_is_split = s.page_is_split
            /\ current_child = "container"
            /\ enabled = WindowIsSplit(s, "container")

\* Gtk allocates the split a size: the window is shown or resized
SizeAllocate(split, size) ==
    /\ ~destroyed
    /\ Attached(State, split)
    /\ Commit(OnSizeAllocate(PanedSizeAllocate(State, split, size), split, size))

\* The user drags the handle of an allocated split
DragDivider(split, pixel) ==
    /\ ~destroyed
    /\ Attached(State, split)
    /\ PanedRange(State, split) > 0
    /\ pixel \in 0..PanedRange(State, split)
    /\ Commit(PanedDragged(State, split, pixel))

\* The main loop dispatches the idle source of a deserialized split.  The
\* closure holds the split, whatever became of its container.
ApplyIdle(split) ==
    /\ split \in apply_idle
    /\ \E range \in RangeReads(State, split) :
            Commit(ApplyIdleCallback(State, split, range))

NextPaned ==
    \/ \E split \in SplitIdsOf(State), size \in Sizes : SizeAllocate(split, size)
    \/ \E split \in SplitIdsOf(State), pixel \in Pixels : DragDivider(split, pixel)
    \/ \E delta \in {PositionStep, -PositionStep} : AdjustSplitPosition(delta)
    \/ \E split \in SplitIdsOf(State) : ApplyIdle(split)
    \/ \E t \in CreatedTerminals : FocusIn(t)
    \/ CloseTab

PanedSpec == InitPaned /\ [][NextPaned]_vars

----------------------------------------------------------------------------
(* Well-formedness of the heap *)

\* No widget sits in two slots, and nothing in a slot is also in the box
SingleParent ==
    \A w \in (1..Len(terminals)) \cup SplitIdsOf(State) :
        Cardinality({<<sp, i>> \in SplitIdsOf(State) \X {1, 2} :
            (IF i = 1 THEN GetChild1(State, sp) ELSE GetChild2(State, sp)) = w})
          + (IF w \in box THEN 1 ELSE 0) <= 1

TypeOK ==
    /\ content \in (-MaxSplits)..MaxTerminals
    /\ active_terminal \in 0..MaxTerminals
    /\ restructuring \in BOOLEAN
    /\ collapse_idle \in BOOLEAN
    /\ idle_sources \in 0..MaxTerminals
    /\ Len(records) = Len(terminals)
    /\ Len(paned) = Len(splits)
    /\ apply_idle \subseteq SplitIdsOf(State)
    /\ page_is_split \subseteq CreatedTerminals \X BOOLEAN
    /\ current_child \in Tabs
    /\ enabled \in BOOLEAN
    /\ destroyed \in BOOLEAN
    /\ focus \in (-MaxSplits)..MaxTerminals
    /\ focus # Null => Attached(State, focus)
    /\ \A k \in 1..Len(splits) :
          splits[k].active_child \in {Null, splits[k].child1, splits[k].child2}

----------------------------------------------------------------------------
(* Vocabulary of the properties *)

\* Every Split at or below w has both children
RECURSIVE AllSplitsFull(_, _)
AllSplitsFull(s, w) ==
    IF ~IsSplit(w) THEN TRUE
    ELSE /\ GetChild1(s, w) # Null
         /\ GetChild2(s, w) # Null
         /\ AllSplitsFull(s, GetChild1(s, w))
         /\ AllSplitsFull(s, GetChild2(s, w))

TreeFull(s) == AllSplitsFull(s, s.content)

ContentFull == TreeFull(State)

\* The tree below w as a value: <<>> for an empty slot, <<t>> for a terminal,
\* <<split, orientation, position, shape of child1, shape of child2>>
RECURSIVE Shape(_, _)
Shape(s, w) ==
    IF w = Null THEN <<>>
    ELSE IF IsTerminal(w) THEN <<w>>
    ELSE <<w, SP(s, w).orientation, SP(s, w).split_position,
           Shape(s, GetChild1(s, w)), Shape(s, GetChild2(s, w))>>

\* The shape of the tree below w in which the node p is replaced by sub
RECURSIVE ShapeSubst(_, _, _, _)
ShapeSubst(s, w, p, sub) ==
    IF w = p THEN sub
    ELSE IF w = Null THEN <<>>
    ELSE IF IsTerminal(w) THEN <<w>>
    ELSE <<w, SP(s, w).orientation, SP(s, w).split_position,
           ShapeSubst(s, GetChild1(s, w), p, sub),
           ShapeSubst(s, GetChild2(s, w), p, sub)>>

\* The shape of the tree below w after every Split with one child is replaced
\* by that child and every Split with no child is dropped
RECURSIVE PrunedShape(_, _)
PrunedShape(s, w) ==
    IF w = Null THEN <<>>
    ELSE IF IsTerminal(w) THEN <<w>>
    ELSE LET l == PrunedShape(s, GetChild1(s, w))
             r == PrunedShape(s, GetChild2(s, w))
         IN  IF l # <<>> /\ r # <<>>
             THEN <<w, SP(s, w).orientation, SP(s, w).split_position, l, r>>
             ELSE IF l # <<>> THEN l ELSE r

\* q with y inserted right after x
InsertAfter(q, x, y) ==
    LET i == IndexOf(q, x)
    IN  SubSeq(q, 1, i) \o <<y>> \o SubSeq(q, i + 1, Len(q))

\* The terminals of the tree
TreeTerminals == SeqToSet(GetAllTerminals(State))

\* A step of one of the container operations or of the deferred collapse
OperationStep ==
    \/ \E t \in CreatedTerminals, o \in Orientations : Split(t, o)
    \/ \E now \in BOOLEAN : CloseActiveTerminal(now)
    \/ Unsplit
    \/ CollapseIdle

----------------------------------------------------------------------------
(* C1 *)

----------------------------------------------------------------------------
(* C2 *)

\* C2: in every state of a live container active_terminal is absent iff
\* content is absent, and when present it is one of get_all_terminals().
C2_ActiveTerminalInTree ==
    ~destroyed =>
        /\ (active_terminal = Null) <=> (content = Null)
        /\ active_terminal # Null => active_terminal \in TreeTerminals

\* The same with no deferred collapse pending: the states in which nothing is
\* left to repair the active terminal
ActiveTerminalInTreeAtRest ==
    (~destroyed /\ ~collapse_idle) =>
        /\ (active_terminal = Null) <=> (content = Null)
        /\ active_terminal # Null => active_terminal \in TreeTerminals

----------------------------------------------------------------------------
(* C3 *)

\* C3: split(t, o) on a container whose content is the single terminal t
\* makes content a Split(o, 0.5, t, new), is_split true and new the active
\* terminal; split(t, o) for t inside a split tree makes the new terminal the
\* active terminal too.
C3_SplitMakesNewTerminalActive ==
    ~destroyed =>
        \A t \in TreeTerminals, o \in Orientations :
            LET r == SplitOp(State, t, o)
                new == FreshTerminal(State)
            IN  /\ Live(r, new)
                /\ r.active_terminal = new
                /\ IsSplitContainer(r)
                /\ content = t =>
                      /\ r.content = FreshSplit(State)
                      /\ SP(r, r.content).orientation = o
                      /\ SP(r, r.content).split_position = DefaultPosition
                      /\ GetChild1(r, r.content) = t
                      /\ GetChild2(r, r.content) = new
                      /\ r.content \in r.box

\* A terminal inside a split tree is split while another terminal is the
\* active one, and the new terminal becomes the active terminal
C3_Witness ==
    /\ ~destroyed
    /\ IsSplitContainer(State)
    /\ \E t \in TreeTerminals :
          /\ active_terminal # t
          /\ SplitOp(State, t, VERTICAL).active_terminal = FreshTerminal(State)
          /\ Len(GetAllTerminals(SplitOp(State, t, VERTICAL))) = 3

----------------------------------------------------------------------------
(* C4 *)

\* C4: split(t, o) with t inside a split tree puts a fresh Split(o, t, new)
\* into the slot t occupied; every other node, orientation and position is
\* unchanged, no existing terminal is destroyed or removed, and
\* get_all_terminals() is the previous sequence with new right after t.
C4_SplitInPlace ==
    (~destroyed /\ IsSplitContainer(State)) =>
        \A t \in TreeTerminals, o \in Orientations :
            LET r == SplitOp(State, t, o)
                new == FreshTerminal(State)
                node == <<FreshSplit(State), o, DefaultPosition, <<t>>, <<new>>>>
            IN  /\ r.content = content
                /\ Shape(r, r.content) = ShapeSubst(State, content, t, node)
                /\ \A u \in CreatedTerminals : r.terminals[u] = terminals[u]
                /\ GetAllTerminals(r) = InsertAfter(GetAllTerminals(State), t, new)

\* A terminal in the first slot of its parent is split, and the new terminal
\* lands in the middle of the traversal
C4_Witness ==
    /\ ~destroyed
    /\ IsSplitContainer(State)
    /\ \E t \in TreeTerminals :
          /\ GetChild1(State, ParentSplit(State, t)) = t
          /\ GetChild1(SplitOp(State, t, HORIZONTAL), ParentSplit(State, t))
                = FreshSplit(State)
          /\ GetAllTerminals(SplitOp(State, t, HORIZONTAL))[2] = FreshTerminal(State)
          /\ Len(GetAllTerminals(SplitOp(State, t, HORIZONTAL))) = 3

----------------------------------------------------------------------------
(* C5 *)

\* C5: collapse_terminal(t), for t whose parent Split P has the sibling S,
\* replaces P by S where P was (as content when P is the root, in P's slot of
\* P's parent otherwise); the rest of the tree is unchanged and t is no
\* longer reachable from content.
C5_CollapseReplacesParentBySibling ==
    (~destroyed /\ IsSplitContainer(State)) =>
        \A t \in TreeTerminals :
            LET P == ParentSplit(State, t)
                S == IF GetChild1(State, P) = t THEN GetChild2(State, P)
                     ELSE GetChild1(State, P)
                r == CollapseTerminalOp(State, t)
            IN  S # Null =>
                  /\ Shape(r, r.content) =
                        ShapeSubst(State, content, P, Shape(State, S))
                  /\ P = content => r.content = S
                  /\ P # content => r.content = content
                  /\ r.content \in r.box
                  /\ t \notin SeqToSet(GetAllTerminals(r))
                  /\ r.terminals = terminals

\* Split(H, Split(V, a, b), c) with collapse_terminal(a) becomes Split(H, b, c)
C5_Witness ==
    /\ ~destroyed
    /\ IsSplitContainer(State)
    /\ SP(State, content).orientation = HORIZONTAL
    /\ IsSplit(GetChild1(State, content))
    /\ SP(State, GetChild1(State, content)).orientation = VERTICAL
    /\ IsTerminal(GetChild2(State, content))
    /\ \E a, b \in CreatedTerminals :
          /\ Shape(State, GetChild1(State, content)) =
                <<GetChild1(State, content), VERTICAL, DefaultPosition, <<a>>, <<b>>>>
          /\ Shape(CollapseTerminalOp(State, a), content) =
                <<content, HORIZONTAL, DefaultPosition, <<b>>,
                  <<GetChild2(State, content)>>>>
          /\ CollapseTerminalOp(State, a).content = content

----------------------------------------------------------------------------
(* C6 *)

\* C6: when the deferred collapse runs after a terminal of a split tree was
\* destroyed, every Split with one child left is replaced by that child,
\* every Split with two children is kept, and the root of the result is
\* content.
C6_DeferredCollapsePrunes ==
    (~destroyed /\ collapse_idle /\ IsSplitContainer(State)) =>
        LET r == CollapseIdleCallback(State)
        IN  /\ Shape(r, r.content) = PrunedShape(State, content)
            /\ ~r.collapse_idle
            /\ r.content # Null => (r.content \in r.box /\ ~r.destroyed)

\* Split(T1, T2) with T2 destroyed: content becomes T1 alone, is_split false
C6_Witness ==
    /\ ~destroyed
    /\ collapse_idle
    /\ IsSplitContainer(State)
    /\ IsTerminal(GetChild1(State, content))
    /\ GetChild2(State, content) = Null
    /\ CollapseIdleCallback(State).content = GetChild1(State, content)
    /\ ~IsSplitContainer(CollapseIdleCallback(State))

----------------------------------------------------------------------------
(* C7 *)

\* No Split of the tree lacks a child and no destroyed terminal is in the tree
Clean ==
    /\ ContentFull
    /\ \A t \in TreeTerminals : Live(State, t)

\* C7: once a destroyed terminal has left an empty slot in the split tree,
\* the container is eventually destroyed or its tree has no Split with fewer
\* than two children and no destroyed terminal.
C7_EventuallyClean ==
    (~destroyed /\ collapse_idle /\ IsSplitContainer(State) /\ ~ContentFull)
        ~> (destroyed \/ Clean)

----------------------------------------------------------------------------
(* C8 *)

\* C8: when every terminal of the split tree is destroyed by the time the
\* deferred collapse runs, the walk yields nothing, content and
\* active_terminal become absent and the container destroys itself.
C8_EmptyTreeSelfDestroys ==
    (~destroyed /\ collapse_idle /\ IsSplitContainer(State)
        /\ GetAllTerminals(State) = <<>>) =>
        LET r == CollapseIdleCallback(State)
        IN  /\ CollapseSplitRecursive(State, content).result = Null
            /\ r.content = Null
            /\ r.active_terminal = Null
            /\ r.destroyed

\* A nested split tree has lost all its terminals and the collapse is pending
C8_Witness ==
    /\ ~destroyed
    /\ collapse_idle
    /\ IsSplitContainer(State)
    /\ GetAllTerminals(State) = <<>>
    /\ CollapseIdleCallback(State).destroyed

----------------------------------------------------------------------------
(* C9 *)

\* C9: when content is a single terminal and it is destroyed outside a
\* restructuring operation, the container at once sets content and
\* active_terminal to absent and destroys itself, and no deferred collapse is
\* scheduled.
C9_SingleTerminalDestroyed ==
    (~destroyed /\ ~restructuring /\ IsTerminal(content) /\ Live(State, content)) =>
        LET r == DestroyTerminal(State, content)
        IN  /\ r.content = Null
            /\ r.active_terminal = Null
            /\ r.destroyed
            /\ ~r.collapse_idle

\* The single terminal of a tab is alive and its destruction destroys the tab
C9_Witness ==
    /\ ~destroyed
    /\ ~restructuring
    /\ IsTerminal(content)
    /\ Live(State, content)
    /\ active_terminal = content
    /\ DestroyTerminal(State, content).destroyed

----------------------------------------------------------------------------
(* C10 *)

\* C10: unsplit() on a split container destroys every terminal of the tree
\* except the active one and leaves content equal to the active terminal alone
\* (is_split false); the destroy notifications of the terminals it destroys
\* schedule no deferred collapse and do not destroy the container.
C10_UnsplitKeepsActiveOnly ==
    (~destroyed /\ IsSplitContainer(State)) =>
        LET r == UnsplitOp(State)
        IN  /\ \A t \in TreeTerminals \ {active_terminal} : ~Live(r, t)
            /\ active_terminal \in TreeTerminals => Live(r, active_terminal)
            /\ r.content = active_terminal
            /\ ~IsSplitContainer(r)
            /\ r.collapse_idle = collapse_idle
            /\ ~r.destroyed
            /\ ~r.restructuring

\* A three-terminal tree whose active terminal is in the tree: unsplit leaves
\* it alone and destroys the other two
C10_Witness ==
    /\ ~destroyed
    /\ ~collapse_idle
    /\ Len(GetAllTerminals(State)) = 3
    /\ active_terminal \in TreeTerminals
    /\ UnsplitOp(State).content = active_terminal
    /\ Live(UnsplitOp(State), active_terminal)
    /\ \A t \in TreeTerminals \ {active_terminal} : ~Live(UnsplitOp(State), t)

----------------------------------------------------------------------------
(* C11 *)

\* The sibling of terminal t in its parent Split (Null when the slot is empty)
SiblingOf(s, t) ==
    IF GetChild1(s, ParentSplit(s, t)) = t
    THEN GetChild2(s, ParentSplit(s, t))
    ELSE GetChild1(s, ParentSplit(s, t))

----------------------------------------------------------------------------
(* C12 *)

\* C12: the re-entrancy guard is held while close_active_terminal() runs the
\* terminal's close(), so whether or not close() destroys the terminal at
\* once the call neither schedules a deferred collapse nor destroys the
\* container.
C12_GuardHeldDuringClose ==
    (~destroyed /\ ~collapse_idle /\ IsSplitContainer(State)
        /\ active_terminal \in TreeTerminals) =>
        /\ BeforeClose(State).restructuring
        /\ \A now \in BOOLEAN :
              /\ ~CloseActiveTerminalOp(State, now).destroyed
              /\ ~CloseActiveTerminalOp(State, now).collapse_idle

----------------------------------------------------------------------------
(* C13 *)

\* C13: focus_adjacent_terminal(d), d = +1 or -1, on a tree of n >= 2
\* terminals whose active terminal is at index i of the traversal focuses the
\* terminal at index (i + d) mod n and leaves the tree as it is; with at most
\* one terminal it does nothing.
C13_FocusAdjacentWraps ==
    ~destroyed =>
        \A d \in {-1, 1} :
            LET all == GetAllTerminals(State)
                n == Len(all)
                i == IndexOf(all, active_terminal) - 1
                r == FocusAdjacentTerminal(State, d)
            IN  /\ (n >= 2 /\ i >= 0) =>
                      /\ r.focus = all[((n + i + d) % n) + 1]
                      /\ r.active_terminal = all[((n + i + d) % n) + 1]
                      /\ r.content = content
                      /\ Shape(r, r.content) = Shape(State, content)
                      /\ r.terminals = terminals
                      /\ r.box = box
                      /\ r.collapse_idle = collapse_idle
                      /\ ~r.destroyed
                /\ n <= 1 => r = State

\* A three-terminal tree with the last terminal active: +1 focuses the first
C13_Witness ==
    /\ ~destroyed
    /\ Len(GetAllTerminals(State)) = 3
    /\ active_terminal = GetAllTerminals(State)[3]
    /\ FocusAdjacentTerminal(State, 1).focus = GetAllTerminals(State)[1]
    /\ FocusAdjacentTerminal(State, 1).active_terminal = GetAllTerminals(State)[1]

----------------------------------------------------------------------------
(* C14 *)

\* Math.max(0.0, Math.min(1.0, value)) of the claim
Clamp(v) == IF v < PositionMin THEN PositionMin
            ELSE IF v > PositionMax THEN PositionMax ELSE v

\* The deltas the property is checked for: one step either way and a jump
\* past either end of the range
Deltas == {PositionStep, -PositionStep, 6 * PositionStep, -6 * PositionStep}

\* Split record k of state r is record k of the current state with the
\* fraction p
SameBut(r, k, p) == r.splits[k] = [splits[k] EXCEPT !.split_position = p]

\* adjust_split_position(delta) applied in the current state changes the
\* fraction of the Splits in the set target to clamp(old + delta) and
\* nothing else
AdjustsExactly(delta, target) ==
    LET r == AdjustSplitPositionOp(State, delta)
    IN  /\ r = [State EXCEPT !.splits = r.splits]
        /\ Len(r.splits) = Len(splits)
        /\ \A k \in 1..Len(splits) :
              IF -k \in target
              THEN SameBut(r, k, Clamp(splits[k].split_position + delta))
              ELSE r.splits[k] = splits[k]

\* The Splits that directly contain terminal t
DirectParents(t) ==
    {-k : k \in {j \in 1..Len(splits) :
                    t # Null /\ t \in {splits[j].child1, splits[j].child2}}}

\* C14: adjust_split_position(delta) changes only the divider fraction of the
\* Split that directly contains the active terminal, to clamp(old + delta, 0,
\* 1); the fractions of all other Splits and the tree structure are
\* unchanged, and it is a no-op when the container is not split.
C14_AdjustsOnlyParentOfActive ==
    ~destroyed =>
        \A delta \in Deltas :
            IF IsSplitContainer(State)
            THEN AdjustsExactly(delta, DirectParents(active_terminal))
            ELSE AdjustSplitPositionOp(State, delta) = State

\* The same property on the states in which the active terminal is in the
\* tree
AdjustsOnlyParentOfActiveInTree ==
    (~destroyed /\ IsSplitContainer(State) /\ active_terminal \in TreeTerminals) =>
        \A delta \in Deltas :
            /\ AdjustsExactly(delta, {ParentSplit(State, active_terminal)})
            /\ DirectParents(active_terminal) = {ParentSplit(State, active_terminal)}

----------------------------------------------------------------------------
(* C15 *)

\* The tree below w as the persisted data sees it: <<>> for an empty slot,
\* the data of a terminal, and orientation, fraction and both subtrees of a
\* Split
RECURSIVE RecordShape(_, _)
RecordShape(s, w) ==
    IF w = Null THEN <<>>
    ELSE IF IsTerminal(w) THEN <<"terminal", s.records[w]>>
    ELSE <<"split", SP(s, w).orientation, SP(s, w).split_position,
           RecordShape(s, GetChild1(s, w)), RecordShape(s, GetChild2(s, w))>>

\* The number of Splits on the longest path from w down
RECURSIVE Depth(_, _)
Depth(s, w) ==
    IF ~IsSplit(w) THEN 0
    ELSE 1 + Max(Depth(s, GetChild1(s, w)), Depth(s, GetChild2(s, w)))

\* C15: deserialize(serialize(container)) is a container whose tree has the
\* shape of the original's: same nesting, same orientation and fraction at
\* every Split, the same terminal records in the same slots; for a single
\* terminal, a two-way split and splits nested three deep.
C15_RoundTrip ==
    (~destroyed /\ SerializeState(State) # NoRecord) =>
        LET r == DeserializeState(SerializeState(State))
        IN  /\ RecordShape(r, r.content) = RecordShape(State, content)
            /\ r.content \in r.box
            /\ ~r.destroyed
            /\ Len(r.terminals) = Len(GetAllTerminals(State))

\* Splits nested three deep, every slot filled, restored alike
C15_Witness ==
    /\ ~destroyed
    /\ Depth(State, content) = 3
    /\ ContentFull
    /\ Len(GetAllTerminals(State)) = 4
    /\ IsSplit(GetChild1(State, content))
    /\ IsSplit(GetChild2(State, GetChild1(State, content)))
    /\ SP(State, content).orientation # SP(State, GetChild1(State, content)).orientation
    /\ SP(State, content).split_position # DefaultPosition
    /\ RecordShape(DeserializeState(SerializeState(State)),
                   DeserializeState(SerializeState(State)).content)
          = RecordShape(State, content)

----------------------------------------------------------------------------
(* C16 *)

\* The tree a persisted node record stands for, as a RecordShape
RECURSIVE ExpectedShape(_)
ExpectedShape(rec) ==
    IF TypeOf(rec) = "terminal"
    THEN <<"terminal", IF "data" \in DOMAIN rec THEN rec["data"] ELSE Null>>
    ELSE IF TypeOf(rec) = "split"
    THEN <<"split",
           IF "orientation" \in DOMAIN rec THEN rec["orientation"] ELSE HORIZONTAL,
           IF "split-position" \in DOMAIN rec THEN rec["split-position"]
           ELSE DefaultPosition,
           IF "first" \in DOMAIN rec THEN ExpectedShape(rec["first"]) ELSE <<>>,
           IF "second" \in DOMAIN rec THEN ExpectedShape(rec["second"]) ELSE <<>>>>
    ELSE <<>>

\* C16: deserialize(record) dispatches on the record's type: a record of type
\* "split" is rebuilt recursively into a Split tree with the recorded
\* orientations and fractions, and a record of any other type or of none
\* gives a container whose content is a single terminal built from that
\* record.
C16_DeserializeDispatchesOnType ==
    LET r == Collect(DeserializeState(session))
    IN  /\ State = Quiet(r)
        /\ TypeOf(session) = "split" =>
              /\ IsSplit(r.content)
              /\ r.box = {r.content}
              /\ RecordShape(r, r.content) = ExpectedShape(session)
        /\ TypeOf(session) # "split" =>
              /\ IsTerminal(r.content)
              /\ r.box = {r.content}
              /\ r.active_terminal = r.content
              /\ r.terminals = <<"live">>
              /\ r.splits = <<>>
              /\ r.records[r.content] =
                    IF "data" \in DOMAIN session THEN session["data"] ELSE Null

\* The record of a terminal beside a Split of two terminals, restored to a
\* tree of three terminals two Splits deep with the recorded attributes
C16_Witness ==
    /\ TypeOf(session) = "split"
    /\ DOMAIN session = {"type", "orientation", "split-position", "first", "second"}
    /\ TypeOf(session["first"]) = "terminal"
    /\ TypeOf(session["second"]) = "split"
    /\ DOMAIN session["second"] = DOMAIN session
    /\ TypeOf(session["second"]["first"]) = "terminal"
    /\ TypeOf(session["second"]["second"]) = "terminal"
    /\ Len(GetAllTerminals(State)) = 3
    /\ Depth(State, content) = 2
    /\ SP(State, content).split_position = session["split-position"]
    /\ SP(State, GetChild2(State, content)).split_position
          = session["second"]["split-position"]
    /\ SP(State, GetChild2(State, content)).orientation
          = session["second"]["orientation"]

----------------------------------------------------------------------------
(* C17 *)

\* A child record whose type tag is unknown or missing
Unknown(rec) == TypeOf(rec) \notin {"terminal", "split"}

\* The terminal records a node record restores
RECURSIVE TerminalRecords(_)
TerminalRecords(rec) ==
    IF TypeOf(rec) = "terminal" THEN 1
    ELSE IF TypeOf(rec) = "split"
    THEN (IF "first" \in DOMAIN rec THEN TerminalRecords(rec["first"]) ELSE 0)
       + (IF "second" \in DOMAIN rec THEN TerminalRecords(rec["second"]) ELSE 0)
    ELSE 0

\* The Split w restored from the split record rec has nothing where rec has
\* a child of unknown type and the restored sibling in the other slot, at
\* every level
RECURSIVE UnknownDropped(_, _, _)
UnknownDropped(s, w, rec) ==
    /\ IsSplit(w)
    /\ \A slot \in {"first", "second"} :
          LET child == IF slot = "first" THEN GetChild1(s, w) ELSE GetChild2(s, w)
          IN  IF slot \notin DOMAIN rec THEN child = Null
              ELSE IF Unknown(rec[slot]) THEN child = Null
              ELSE IF TypeOf(rec[slot]) = "terminal"
              THEN /\ IsTerminal(child)
                   /\ Live(s, child)
                   /\ s.records[child] = rec[slot]["data"]
              ELSE UnknownDropped(s, child, rec[slot])

\* C17: a child record of unknown or missing type inside a split record
\* deserializes to nothing, and the other children of the record, the
\* sibling branch and what was restored before it, are restored into the
\* tree.
C17_UnknownChildIsNothing ==
    TypeOf(session) = "split" =>
        LET r == DeserializeState(session)
        IN  /\ UnknownDropped(r, r.content, session)
            /\ Len(r.terminals) = TerminalRecords(session)
            /\ Len(GetAllTerminals(r)) = TerminalRecords(session)
            /\ ~r.destroyed

\* A split record whose second child has an unknown type and whose first
\* child is a split record with an untyped child: the restored tree has the
\* terminals of the known records only
C17_Witness ==
    /\ TypeOf(session) = "split"
    /\ "first" \in DOMAIN session
    /\ "second" \in DOMAIN session
    /\ TypeOf(session["second"]) = "other"
    /\ TypeOf(session["first"]) = "split"
    /\ "first" \in DOMAIN session["first"]
    /\ "second" \in DOMAIN session["first"]
    /\ TypeOf(session["first"]["first"]) = "terminal"
    /\ TypeOf(session["first"]["second"]) = "null"
    /\ GetChild2(State, content) = Null
    /\ IsSplit(GetChild1(State, content))
    /\ IsTerminal(GetChild1(State, GetChild1(State, content)))
    /\ GetChild2(State, GetChild1(State, content)) = Null
    /\ Len(terminals) = 1

----------------------------------------------------------------------------
(* C18 *)

\* C18: on a tree in which every Split has two live children the empty-split
\* collapse returns the same root and changes nothing in the tree structure
\* (same nodes, same slots, same content); running the collapse twice in a
\* row gives what running it once gives.
C18_CollapseIdempotent ==
    (~destroyed /\ IsSplitContainer(State)) =>
        LET walk == CollapseSplitRecursive(State, content)
            once == Collect(CollapseEmptySplits(State))
            twice == Collect(CollapseEmptySplits(once))
        IN  /\ ContentFull =>
                  /\ walk.result = content
                  /\ walk.st = State
                  /\ once.content = content
                  /\ Shape(once, once.content) = Shape(State, content)
                  /\ once.box = box
                  /\ once.terminals = terminals
                  /\ ~once.destroyed
            /\ Quiet(twice) = Quiet(once)

\* A full tree with a nested Split on which the collapse is run
C18_Witness ==
    /\ ~destroyed
    /\ IsSplitContainer(State)
    /\ ContentFull
    /\ IsSplit(GetChild1(State, content)) \/ IsSplit(GetChild2(State, content))
    /\ CollapseSplitRecursive(State, content).result = content
    /\ CollapseEmptySplits(State).content = content

----------------------------------------------------------------------------
(* C19 *)

\* The empty child slots of the Splits below w
RECURSIVE EmptySlots(_, _)
EmptySlots(s, w) ==
    IF ~IsSplit(w) THEN 0
    ELSE (IF GetChild1(s, w) = Null THEN 1 ELSE EmptySlots(s, GetChild1(s, w)))
       + (IF GetChild2(s, w) = Null THEN 1 ELSE EmptySlots(s, GetChild2(s, w)))

\* C19: at most one deferred collapse is queued per container: a terminal
\* destruction that arrives while one is pending queues no second one, and
\* the one callback that runs deals with every terminal destroyed before it
\* runs (it leaves no empty slot, keeps the live terminals of the tree and
\* nothing queued).
C19_SinglePendingCollapse ==
    /\ idle_sources <= 1
    /\ collapse_idle <=> idle_sources = 1
    /\ (~destroyed /\ collapse_idle) =>
          \A t \in {u \in 1..Len(terminals) : Live(State, u)} :
              DestroyTerminal(State, t).idle_sources <= 1
    /\ (~destroyed /\ collapse_idle /\ IsSplitContainer(State)) =>
          LET r == Collect(CollapseIdleCallback(State))
          IN  /\ r.idle_sources = 0
              /\ ~r.collapse_idle
              /\ EmptySlots(r, r.content) = 0
              /\ SeqToSet(GetAllTerminals(r)) = TreeTerminals
              /\ \A t \in TreeTerminals : Live(r, t)

\* Two terminals were destroyed before the one queued callback runs; the
\* callback leaves the surviving terminal as content
C19_Witness ==
    /\ ~destroyed
    /\ collapse_idle
    /\ idle_sources = 1
    /\ IsSplitContainer(State)
    /\ EmptySlots(State, content) = 2
    /\ IsTerminal(CollapseIdleCallback(State).content)
    /\ CollapseIdleCallback(State).idle_sources = 0

----------------------------------------------------------------------------
(* C20 *)

\* C20: destroying the container releases its pending deferred collapse; on a
\* destroyed container nothing is queued, a collapse callback would leave the
\* tree as it is, and a terminal's destroy notification schedules nothing and
\* changes nothing.
C20_DestroyedIsInert ==
    /\ ~destroyed =>
          /\ ~DestroyContainer(State).collapse_idle
          /\ DestroyContainer(State).idle_sources = 0
          /\ DestroyContainer(State).destroyed
    /\ destroyed =>
          /\ ~collapse_idle
          /\ idle_sources = 0
          /\ CollapseIdleCallback([State EXCEPT !.idle_sources = 1]) = State
          /\ OnTerminalDestroyed(State) = State
          /\ DestroyHandler(State) = State
          /\ \A t \in {u \in 1..Len(terminals) : Live(State, u)} :
                LET r == DestroyTerminal(State, t)
                IN  /\ [r EXCEPT !.splits = splits, !.terminals = terminals] = State
                    /\ Shape(r, r.content) = Shape(State, content)
                    /\ \A u \in 1..Len(terminals) :
                          u # t => r.terminals[u] = terminals[u]

\* A container destroyed while a terminal detached from it is still alive
C20_Witness ==
    /\ destroyed
    /\ \E t \in 1..Len(terminals) :
          /\ Live(State, t)
          /\ DestroyTerminal(State, t).terminals[t] = "destroyed"
          /\ ~DestroyTerminal(State, t).collapse_idle

\* A container with a collapse pending on which the destruction acts
PendingReleasedByDestroy ==
    /\ ~destroyed
    /\ collapse_idle
    /\ idle_sources = 1
    /\ ~CloseTabOp(State).collapse_idle
    /\ CloseTabOp(State).idle_sources = 0

----------------------------------------------------------------------------
(* C21 *)

\* C21: when the container is destroyed before the idle task of a
\* deserialized split runs, the task is cancelled (none is queued any more)
\* or its callback does nothing: whatever range it reads, running it
\* changes nothing but the queue it leaves.
C21_ApplyTaskInertAfterDestroy ==
    destroyed =>
        \A split \in apply_idle : \A range \in RangeReads(State, split) :
            ApplyIdleCallback(State, split, range)
                = [State EXCEPT !.apply_idle = @ \ {split}]

----------------------------------------------------------------------------
(* C22 *)

\* The structure of the tree: the content and the two slots of every Split
Structure(s) ==
    <<s.content, [k \in 1..Len(s.splits) |-> <<s.splits[k].child1,
                                                s.splits[k].child2>>]>>

\* The operation that led from the current state to r changed the tree and
\* left the container alive
StructuralChange(r) == Structure(r) # Structure(State) /\ ~r.destroyed

\* By the time the operation that led to r returned, every terminal of the
\* tree was told the container's is_split and the container emitted one
\* 'session-update'
Notified(r) ==
    /\ \A t \in SeqToSet(GetAllTerminals(r)) : <<t, IsSplitContainer(r)>> \in r.told
    /\ r.emitted = 1

\* The results of split, unsplit, collapse_terminal and the deferred collapse
\* in the current state
RestructuringResults ==
    {SplitOp(State, t, o) : t \in {u \in CreatedTerminals :
                                    Live(State, u) /\ Attached(State, u)
                                    /\ Len(terminals) < MaxTerminals
                                    /\ Len(splits) < MaxSplits},
                            o \in Orientations}
    \cup {UnsplitOp(State)}
    \cup {CollapseTerminalOp(State, t) : t \in CreatedTerminals}
    \cup {CollapseIdleCallback(State) : n \in {idle_sources} \ {0}}

\* The result of set_terminal with a new page in the current state
SetTerminalResults ==
    {SetTerminalOp(NewTerminal(State), FreshTerminal(State)) :
        n \in {Len(terminals)} \ {MaxTerminals}}

\* C22: every structural change of the tree by set_terminal, split, unsplit,
\* collapse_terminal or a deferred collapse that leaves the container alive
\* is followed, before the operation returns, by the is_split broadcast to
\* every terminal of the tree and by one session-update notification.
C22_StructuralChangeNotifies ==
    ~destroyed =>
        \A r \in RestructuringResults \cup SetTerminalResults :
            StructuralChange(r) => Notified(r)

\* The same of the operations other than set_terminal, while an active
\* terminal is recorded
RestructuringNotifies ==
    (~destroyed /\ active_terminal # Null) =>
        \A r \in RestructuringResults : StructuralChange(r) => Notified(r)

\* set_terminal broadcasts is_split and emits nothing
SetTerminalBroadcastsOnly ==
    ~destroyed =>
        \A r \in SetTerminalResults :
            /\ r.told = {<<r.content, FALSE>>}
            /\ r.emitted = 0

----------------------------------------------------------------------------
(* C23 *)

\* The operation that led from the current state to r changed the fraction
\* of some Split
FractionChanged(r) ==
    \E k \in 1..Len(splits) :
        r.splits[k].split_position # splits[k].split_position

\* The results of adjust_split_position by one step either way and of a drag
\* of the handle of an allocated split of the tree, in the current state
PositionResults ==
    {AdjustSplitPositionOp(State, delta) : delta \in {PositionStep, -PositionStep}}
    \cup {PanedDragged(State, split, pixel) :
            split \in {sp \in SplitIdsOf(State) :
                        Attached(State, sp) /\ PanedRange(State, sp) > 0},
            pixel \in Pixels}

\* C23: every change of a Split's fraction by adjust_split_position or by a
\* drag of the divider results in the container emitting session-update.
C23_PositionChangeEmits ==
    ~destroyed =>
        \A r \in PositionResults : FractionChanged(r) => r.emitted >= 1

\* No change of a fraction makes the container emit anything
PositionChangeEmitsNothing ==
    ~destroyed => \A r \in PositionResults : r.emitted = 0

\* A state in which a drag changes the fraction of a Split
DragChangesFraction ==
    /\ ~destroyed
    /\ \E split \in SplitIdsOf(State), pixel \in Pixels :
           /\ Attached(State, split)
           /\ PanedRange(State, split) > 0
           /\ FractionChanged(PanedDragged(State, split, pixel))

----------------------------------------------------------------------------
(* C24 *)

\* The terminals a split request can name in the current state
Splittable ==
    {t \in CreatedTerminals :
        /\ Live(State, t)
        /\ Attached(State, t)
        /\ Len(terminals) < MaxTerminals
        /\ Len(splits) < MaxSplits}

\* C24: with the preserve-working-directory policy enabled, the terminal
\* split(t, o) creates starts in the working directory of t, whether or not
\* t is the active terminal.
C24_NewTerminalInheritsCwdOfSplitTerminal ==
    ~destroyed =>
        \A t \in Splittable, o \in Orientations :
            <<FreshTerminal(State), TRUE, GetCwd(State, t)>>
                \in SplitOp(State, t, o).spawned

\* It starts in the working directory of the active terminal, if there is
\* one, and with the policy disabled in no directory in particular
NewTerminalInheritsCwdOfActive ==
    ~destroyed =>
        \A t \in Splittable, o \in Orientations :
            SplitOp(State, t, o).spawned =
                {<<FreshTerminal(State), TRUE,
                   IF active_terminal # Null
                   THEN GetCwd(State, active_terminal) ELSE Null>>,
                 <<FreshTerminal(State), FALSE, Null>>}

\* A split of a live terminal of the tree that is not the active one
SplitOfInactiveTerminal ==
    /\ ~destroyed
    /\ \E t \in Splittable : t # active_terminal /\ Live(State, active_terminal)

----------------------------------------------------------------------------
(* C25 *)

\* C25: the destroy notification of a terminal inside the split tree leaves
\* content, the Split nodes and their remaining children as they are: the
\* slot of the destroyed terminal is empty, nothing else moved, nothing was
\* notified, and a deferred collapse is pending that a later idle turn runs.
C25_DestroyNotificationOnlySchedules ==
    (~destroyed /\ IsSplitContainer(State)) =>
        \A t \in TreeTerminals :
            LET r == DestroyTerminal(State, t)
            IN  /\ r.content = content
                /\ r.box = box
                /\ ~r.destroyed
                /\ Len(r.splits) = Len(splits)
                /\ \A k \in 1..Len(splits) :
                      /\ r.splits[k].orientation = splits[k].orientation
                      /\ r.splits[k].split_position = splits[k].split_position
                      /\ r.splits[k].child1 =
                            IF splits[k].child1 = t THEN Null ELSE splits[k].child1
                      /\ r.splits[k].child2 =
                            IF splits[k].child2 = t THEN Null ELSE splits[k].child2
                /\ r.collapse_idle
                /\ r.idle_sources = idle_sources + (IF collapse_idle THEN 0 ELSE 1)
                /\ r.emitted = 0
                /\ r.told = {}

\* A terminal of a nested Split is destroyed with no collapse pending: its
\* slot is empty afterwards, its parent is still in the tree and the
\* collapse is pending
C25_Witness ==
    /\ ~destroyed
    /\ ~collapse_idle
    /\ IsSplitContainer(State)
    /\ ContentFull
    /\ IsSplit(GetChild2(State, content))
    /\ IsTerminal(GetChild1(State, GetChild2(State, content)))
    /\ LET t == GetChild1(State, GetChild2(State, content))
           r == DestroyTerminal(State, t)
       IN  /\ GetChild1(r, GetChild2(r, r.content)) = Null
           /\ GetChild2(r, r.content) = GetChild2(State, content)
           /\ r.collapse_idle
           /\ ~IsSplit(CollapseIdleCallback(r).splits[-content].child2)

----------------------------------------------------------------------------
(* C26 *)

\* The live terminals of the tree
LiveTreeTerminals(s) == {t \in SeqToSet(GetAllTerminals(s)) : Live(s, t)}

\* C26: whatever happened to the tree since the collapse was scheduled, the
\* callback works on the tree it finds: afterwards no Split of the tree has
\* an empty slot, every live terminal that was in the tree is still in it,
\* and when content is not a Split the callback changes nothing but its own
\* bookkeeping.
C26_CollapseActsOnCurrentTree ==
    (~destroyed /\ idle_sources > 0) =>
        LET r == Collect(CollapseIdleCallback(State))
        IN  /\ ~r.destroyed => TreeFull(r)
            /\ LiveTreeTerminals(State) \subseteq LiveTreeTerminals(r)
            /\ LiveTreeTerminals(State) # {} => ~r.destroyed
            /\ ~IsSplitContainer(State) =>
                    r = [State EXCEPT !.collapse_idle = FALSE,
                                      !.idle_sources = @ - 1]

\* A collapse is pending although content is a single live terminal: the
\* tree was a Split when the collapse was scheduled and was collapsed to
\* the terminal since
C26_Witness ==
    /\ ~destroyed
    /\ collapse_idle
    /\ idle_sources > 0
    /\ IsTerminal(content)
    /\ Live(State, content)
    /\ Len(terminals) = MaxTerminals
    /\ CollapseIdleCallback(State).content = content

\* A collapse is pending on a tree that was split again since a terminal was
\* destroyed: a Split of two live terminals beside an empty slot, new at the
\* place of the terminal it was made from
C26_WitnessSplitSince ==
    /\ ~destroyed
    /\ collapse_idle
    /\ IsSplitContainer(State)
    /\ ~ContentFull
    /\ Cardinality(LiveTreeTerminals(State)) = 2
    /\ Len(terminals) = MaxTerminals
    /\ terminals[MaxTerminals] = "live"
    /\ IsTerminal(CollapseIdleCallback(State).content) = FALSE

----------------------------------------------------------------------------
(* C27 *)

\* Every Split of s has its fraction within the range of the property
FractionsInRange(s) ==
    \A k \in 1..Len(s.splits) :
        s.splits[k].split_position \in PositionMin..PositionMax

\* C27: the fraction of every Split is within [0, 1] in every reachable
\* state of a restored tab, whatever was adjusted, dragged, resized or read
\* from the persisted record.
C27_FractionInRange == FractionsInRange(State)

\* The fractions of the record the tab was restored from are within [0, 1]
RecordInRange ==
    "split-position" \in DOMAIN session =>
        session["split-position"] \in PositionMin..PositionMax

\* A tab restored from a record with fractions within [0, 1] keeps them
\* there, also under adjust_split_position with deltas beyond the range
FractionInRangeOfValidRecord ==
    RecordInRange =>
        /\ FractionsInRange(State)
        /\ \A delta \in Deltas : FractionsInRange(AdjustSplitPositionOp(State, delta))

\* Once a fraction was adjusted or the handle dragged, the fraction is
\* within [0, 1] whatever the record held
OutOfRangeOnlyAsRestored ==
    FractionsInRange(State)
        \/ (~RecordInRange /\ splits[1].split_position = session["split-position"])

----------------------------------------------------------------------------
(* C28 *)

\* Every split record at or below rec has both children, each a terminal
\* record or a split record
RECURSIVE RecordFull(_)
RecordFull(rec) ==
    TypeOf(rec) = "split" =>
        /\ {"first", "second"} \subseteq DOMAIN rec
        /\ \A key \in {"first", "second"} :
              /\ TypeOf(rec[key]) \in {"terminal", "split"}
              /\ RecordFull(rec[key])

\* C28: the container deserialize produces has no Split with fewer than two
\* children: is_split implies at least two terminals, and there is an
\* active terminal whenever there is content.
C28_RestoredTreeFull ==
    ~destroyed =>
        /\ ContentFull
        /\ IsSplitContainer(State) => Len(GetAllTerminals(State)) >= 2
        /\ content # Null => active_terminal # Null

\* So it is when every split record has both children
FullRecordRestoresFull ==
    (~destroyed /\ RecordFull(session)) =>
        /\ ContentFull
        /\ IsSplitContainer(State) => Len(GetAllTerminals(State)) >= 2
        /\ content # Null => active_terminal # Null

\* A tab restored with a Split that has no child at all: there is content
\* and no active terminal
RestoredEmptySplit ==
    /\ ~destroyed
    /\ IsSplitContainer(State)
    /\ GetAllTerminals(State) = <<>>
    /\ active_terminal = Null

----------------------------------------------------------------------------
(* C29 *)

\* The terminal pages reachable from content through the slots of the Splits
ReachableTerminals ==
    IF content = Null THEN {}
    ELSE {w \in Descendants(State, content) : IsTerminal(w)}

\* C29: get_all_terminals() returns the terminal leaves reachable from
\* content, each once, and of any two the one it lists first is below child1
\* and the other below child2 of the Split where their paths part; this in
\* every reachable state, so after every mutation.
C29_GetAllTerminalsIsDepthFirst ==
    LET all == GetAllTerminals(State)
    IN  /\ SeqToSet(all) = ReachableTerminals
        /\ Len(all) = Cardinality(ReachableTerminals)
        /\ \A i, j \in 1..Len(all) :
              i < j =>
                \E sp \in SplitIdsOf(State) :
                    /\ GetChild1(State, sp) # Null
                    /\ GetChild2(State, sp) # Null
                    /\ all[i] \in Descendants(State, GetChild1(State, sp))
                    /\ all[j] \in Descendants(State, GetChild2(State, sp))

\* A tree of three terminals whose traversal order is not the order of
\* their creation
C29_Witness ==
    /\ ~destroyed
    /\ IsSplitContainer(State)
    /\ GetAllTerminals(State) = <<1, 3, 2>>

----------------------------------------------------------------------------
(* C30 *)

\* The getter follows its rule: through the recorded child when there is
\* one, else the first terminal in traversal order
ResolvesByRule(s, sp) ==
    LET ac == SP(s, sp).active_child
        below == CollectTerminals(s, sp)
    IN  /\ (ac # Null /\ IsTerminal(ac)) => SplitActiveTerminal(s, sp) = ac
        /\ (ac # Null /\ IsSplit(ac)) =>
                SplitActiveTerminal(s, sp) = SplitActiveTerminal(s, ac)
        /\ ac = Null =>
                SplitActiveTerminal(s, sp) =
                    IF below = <<>> THEN Null ELSE below[1]

\* The getter gives a terminal of the Split's own subtree when there is one
ResolvesWithin(s, sp) ==
    CollectTerminals(s, sp) # <<>> =>
        SplitActiveTerminal(s, sp) \in SeqToSet(CollectTerminals(s, sp))

\* C30: for every Split, active_terminal resolves through the recorded
\* last-focused child when one is recorded and otherwise gives the first
\* terminal in traversal order; the result is a terminal of the Split's own
\* subtree whenever that subtree has a terminal.
C30_ActiveTerminalWithinSubtree ==
    \A sp \in SplitIdsOf(State) :
        ResolvesByRule(State, sp) /\ ResolvesWithin(State, sp)

\* The same for the Splits of a tree without empty slots
ActiveTerminalWithinFullSubtree ==
    \A sp \in SplitIdsOf(State) :
        AllSplitsFull(State, sp) =>
            ResolvesByRule(State, sp) /\ ResolvesWithin(State, sp)

\* The same for the Splits with a recorded child, whatever their slots hold
ActiveTerminalWithinWhenRecorded ==
    \A sp \in SplitIdsOf(State) :
        SP(State, sp).active_child # Null =>
            ResolvesByRule(State, sp) /\ ResolvesWithin(State, sp)

\* Without a recorded child the getter gives what _get_first_terminal gives,
\* which is nothing when child1 is a Split without terminals
FirstTerminalStopsAtFirstChild ==
    \A sp \in SplitIdsOf(State) :
        (/\ SP(State, sp).active_child = Null
         /\ IsSplit(GetChild1(State, sp))
         /\ CollectTerminals(State, GetChild1(State, sp)) = <<>>)
            => SplitActiveTerminal(State, sp) = Null

----------------------------------------------------------------------------
(* C31 *)

\* C31: replace_child(old, new) on a Split with the immediate child old and
\* a new page without parent puts new into the slot old had, leaves the
\* other slot, the orientation, the fraction and every other Split as they
\* are, and old is no child of the Split any more.
C31_ReplaceChildInPlace ==
    \A sp \in SplitIdsOf(State) :
        \A old \in {GetChild1(State, sp), GetChild2(State, sp)} \ {Null} :
            LET new == FreshTerminal(State)
                r == ReplaceChild(NewTerminal(State), sp, old, new)
            IN  /\ GetChild1(State, sp) = old =>
                      /\ GetChild1(r, sp) = new
                      /\ GetChild2(r, sp) = GetChild2(State, sp)
                /\ GetChild2(State, sp) = old =>
                      /\ GetChild2(r, sp) = new
                      /\ GetChild1(r, sp) = GetChild1(State, sp)
                /\ SP(r, sp).orientation = SP(State, sp).orientation
                /\ SP(r, sp).split_position = SP(State, sp).split_position
                /\ r.paned = paned
                /\ ParentSplit(r, old) = Null
                /\ ParentSplit(r, new) = sp
                /\ \A other \in SplitIdsOf(State) \ {sp} :
                      /\ GetChild1(r, other) = GetChild1(State, other)
                      /\ GetChild2(r, other) = GetChild2(State, other)

\* A Split of the tree with both slots taken whose second child, a Split
\* itself, is replaced
C31_Witness ==
    /\ ~destroyed
    /\ IsSplitContainer(State)
    /\ IsTerminal(GetChild1(State, content))
    /\ IsSplit(GetChild2(State, content))
    /\ LET r == ReplaceChild(NewTerminal(State), content,
                             GetChild2(State, content), FreshTerminal(State))
       IN  /\ GetChild2(r, content) = FreshTerminal(State)
           /\ GetChild1(r, content) = GetChild1(State, content)


\* The pixel offset _apply_split_position gives the handle of a split for a
\* positive range: round(min_position + fraction * range), which
\* Gtk.Paned.set_position keeps within the range
PixelOffset(s, split, range) ==
    Max(0, Min(range, Round(SP(s, split).split_position * range, PositionMax)))

AllocationMovesFraction ==
    \E sp \in SplitIdsOf(State) : \E size \in Sizes :
        PanedSizeAllocate(State, sp, size).splits # splits


----------------------------------------------------------------------------
(* C33 *)

\* The terminals created so far that are not reachable from the content
Unreachable == CreatedTerminals \ Descendants(State, content)

\* r has the content, the tree and the active terminal of the current state
SameTree(r) ==
    /\ r.content = content
    /\ Shape(r, r.content) = Shape(State, content)
    /\ r.active_terminal = active_terminal

\* C33: operations whose precondition fails are no-ops.  On a container
\* that is not split, unsplit, collapse_terminal, close_active_terminal and
\* adjust_split_position return with the state as it was; for a terminal t
\* that is not reachable from the content, collapse_terminal(t) returns
\* with the state as it was and split(t, o) leaves the content, the tree
\* (hence its terminals) and the active terminal as they were.
C33_FailedPreconditionIsNoOp ==
    /\ ~IsSplitContainer(State) =>
          /\ Quiet(UnsplitOp(State)) = State
          /\ \A t \in CreatedTerminals :
                Quiet(CollapseTerminalOp(State, t)) = State
          /\ \A now \in BOOLEAN :
                Quiet(CloseActiveTerminalOp(State, now)) = State
          /\ \A delta \in Deltas :
                Quiet(AdjustSplitPositionOp(State, delta)) = State
    /\ \A t \in Unreachable :
          /\ Quiet(CollapseTerminalOp(State, t)) = State
          /\ \A o \in Orientations :
                LET r == SplitOp(State, t, o)
                IN  /\ SameTree(r)
                    /\ GetAllTerminals(r) = GetAllTerminals(State)
                    /\ ~r.restructuring

\* A live container on a single live terminal that is its active terminal,
\* with another live terminal that left the tree
C33_Witness ==
    /\ ~destroyed
    /\ IsTerminal(content) /\ Live(State, content)
    /\ active_terminal = content
    /\ \E t \in Unreachable : Live(State, t)

\* A split container with a terminal that is not reachable from its content
C33_WitnessSplit ==
    /\ ~destroyed
    /\ IsSplitContainer(State)
    /\ Unreachable # {}

\* What a split(t, o) for an unreachable t still does: it creates and
\* spawns a terminal that belongs to no tree
DeclinedSplitSpawns ==
    \E t \in Unreachable : \E o \in Orientations :
        /\ SplitOp(State, t, o).spawned # {}
        /\ Len(SplitOp(State, t, o).terminals) = Len(terminals) + 1


----------------------------------------------------------------------------
(* C34 *)

\* C34: the window's pane actions are enabled exactly when the current
\* tab's container is split, in every state reached by split, unsplit, pane
\* close, deferred collapse and tab switch operations.
C34_PaneActionsEnabledIffSplit ==
    ~destroyed => (enabled <=> WindowIsSplit(State, current_child))

\* What does hold: a tab switch leaves the pane actions enabled exactly
\* when the tab switched to is split
TabSwitchSynchronizes ==
    [][SwitchTab => (enabled' <=> WindowIsSplit(State, current_child'))]_vars

\* The pane actions enabled on the split container after the tab was
\* switched away and back
EnabledAfterSwitch ==
    ~destroyed /\ enabled /\ WindowIsSplit(State, current_child)

\* The pane actions still enabled on a container that is no longer split
EnabledOnSingleTerminal ==
    ~destroyed /\ enabled /\ current_child = "container" /\ IsTerminal(content)


----------------------------------------------------------------------------
(* C35 *)

\* The destroy notification of terminal t, handled in state s, leaves the
\* content, the container and the live terminals of the tree as they were
DestroyLeavesTree(s, t) ==
    LET r == DestroyTerminal(s, t)
    IN  /\ r.content = s.content
        /\ r.destroyed = s.destroyed
        /\ \A u \in LiveTreeTerminals(s) :
              Live(r, u) /\ u \in LiveTreeTerminals(r)

\* C35: the destroy notification of a terminal that is no longer reachable
\* from the content (detached by collapse_terminal or close_active_terminal
\* and destroyed in a later turn, or replaced by set_terminal) never changes
\* the content, never destroys the container and never removes a live
\* terminal from the tree.
C35_UnreachableDestroyIsInert ==
    /\ \A t \in Unreachable : Live(State, t) => DestroyLeavesTree(State, t)
    /\ (IsTerminal(content) /\ Live(State, content) /\ ~destroyed) =>
          DestroyLeavesTree(
              SetTerminalOp(NewTerminal(State), FreshTerminal(State)), content)

\* What does hold: while the content is a Split, the destroy notification
\* of an unreachable terminal only schedules the deferred collapse
UnreachableDestroyUnderSplit ==
    IsSplitContainer(State) =>
        \A t \in Unreachable : Live(State, t) => DestroyLeavesTree(State, t)

\* A split container beside which a detached terminal is still alive
DetachedBesideSplit ==
    /\ ~destroyed /\ IsSplitContainer(State)
    /\ \E t \in Unreachable : Live(State, t)


\* The container on a single live terminal, destroyed together with it by
\* the destroy notification of a terminal that close_active_terminal
\* detached in an earlier turn
DetachedDestroyDestroysContainer ==
    /\ ~destroyed /\ IsTerminal(content) /\ Live(State, content)
    /\ \E t \in Unreachable :
          /\ Live(State, t)
          /\ DestroyTerminal(State, t).destroyed
          /\ DestroyTerminal(State, t).content = Null
          /\ ~Live(DestroyTerminal(State, t), content)


----------------------------------------------------------------------------
(* C36 *)

\* The content of s is a terminal that has been destroyed
ContentDestroyed(s) == IsTerminal(s.content) /\ ~Live(s, s.content)

\* The states an operation issued in the current state can return in:
\* unsplit, collapse_terminal, close_active_terminal and split
IssuedResults ==
    {UnsplitOp(State)}
        \cup {CollapseTerminalOp(State, t) : t \in TreeTerminals}
        \cup {CloseActiveTerminalOp(State, now) : now \in BOOLEAN}
        \cup {SplitOp(State, t, o) : t \in TreeTerminals, o \in Orientations}

\* State r once the deferred collapse it has pending, if any, has run
Settled(r) ==
    IF r.collapse_idle /\ ~r.destroyed THEN CollapseIdleCallback(r) ELSE r

\* The operation that returned in r left the container alive, also after
\* the deferred collapse, without a live terminal although its tree had one
LastTerminalDestroyed(r) ==
    /\ LiveTreeTerminals(State) # {}
    /\ ~Settled(r).destroyed
    /\ LiveTreeTerminals(Settled(r)) = {}

\* C36: however unexpected terminal destructions interleave with unsplit,
\* collapse_terminal, close_active_terminal and split issued before the
\* deferred collapse runs, a live container with no deferred collapse
\* pending never has a destroyed terminal as its content, and none of these
\* operations destroys the last live terminal of a container it leaves
\* alive.
C36_RobustToInterleavedDestruction ==
    ~destroyed =>
        /\ ~collapse_idle => ~ContentDestroyed(State)
        /\ \A r \in IssuedResults : ~LastTerminalDestroyed(r)

\* What does hold: issued while the active terminal is a live terminal of
\* the tree, none of the operations makes a destroyed terminal the content
\* or destroys the last live terminal of a container it leaves alive
RobustWhenActiveInTree ==
    (~destroyed /\ active_terminal \in LiveTreeTerminals(State)) =>
        \A r \in IssuedResults :
            /\ ~LastTerminalDestroyed(r)
            /\ ~(ContentDestroyed(Settled(r)) /\ ~Settled(r).destroyed)

\* A deferred collapse pending on a tree that still has a live terminal
\* while the active terminal is a destroyed one
StaleActiveBeforeCollapse ==
    /\ ~destroyed /\ collapse_idle
    /\ LiveTreeTerminals(State) # {}
    /\ active_terminal # Null /\ ~Live(State, active_terminal)


\* A live container with no deferred collapse pending whose content is a
\* destroyed terminal
ContentDestroyedAtRest ==
    ~destroyed /\ ~collapse_idle /\ ~restructuring /\ ContentDestroyed(State)


----------------------------------------------------------------------------
(* C37 *)

\* A live container with no operation in progress and no deferred collapse
\* pending
Quiescent == ~destroyed /\ ~restructuring /\ ~collapse_idle

\* is_split is true exactly when the tree has at least two terminals
IsSplitIffTwoTerminals ==
    IsSplitContainer(State) <=> Len(GetAllTerminals(State)) >= 2

\* The last set_is_split on every terminal of the tree passed the
\* container's current is_split
AllToldCurrentIsSplit ==
    \A t \in TreeTerminals : <<t, IsSplitContainer(State)>> \in page_is_split

\* C37: in every quiescent state of a live container is_split is true if
\* and only if get_all_terminals() has at least two elements, and every
\* terminal of the tree was last told an is_split equal to the container's
\* current is_split.
C37_IsSplitConsistentAtRest ==
    Quiescent => (IsSplitIffTwoTerminals /\ AllToldCurrentIsSplit)

\* The two halves of C37 on their own
IsSplitIffTwoTerminalsAtRest == Quiescent => IsSplitIffTwoTerminals

ToldCurrentIsSplitAtRest == Quiescent => AllToldCurrentIsSplit


\* Both halves for a tab restored from a record whose split records all
\* have both children
IsSplitConsistentOfFullRecord ==
    (Quiescent /\ RecordFull(session)) =>
        (IsSplitIffTwoTerminals /\ AllToldCurrentIsSplit)

\* A tree that the deferred collapse has reduced to a single terminal,
\* which was told that it is no longer part of a split
ToldSingleAfterCollapse ==
    /\ Quiescent
    /\ IsTerminal(content) /\ Live(State, content)
    /\ Len(terminals) >= 2
    /\ <<content, FALSE>> \in page_is_split

====
